---- MODULE Spec2Model ----
(***************************************************************************)
(* Model of pypm_test: the Keysight U3606 (DC supply + multimeter) and     *)
(* Keysight U2723 (3-channel SMU) wrappers, their scoped session managers  *)
(* and the SMU memory-list generators.                                     *)
(*                                                                         *)
(* Numbers.  Every setpoint, limit and level is an integer count of        *)
(* 1e-4 units (0.1 mV or 0.1 mA): 30 V = 300000, 30.0001 V = 300001,       *)
(* 1.05 A = 10500, 0.12 A = 1200, 0.13 A = 1300.  Inputs are finite        *)
(* numbers on that grid.  Delays are in ms, counts are plain integers.     *)
(*                                                                         *)
(* Commands.  A command written to the transport is a record               *)
(*   [hdr, tok, val, ch]                                                   *)
(* hdr the SCPI header text, tok the protocol tokens of its enumerated      *)
(* options in order, val its numeric parameters in order,                  *)
(* ch the channel index of the trailing (@<ch>) (0 when there is none).    *)
(*                                                                         *)
(* Enumerations.  An enum member is modelled by its member name; the set   *)
(* named after the class is the set of its members (isinstance is set      *)
(* membership) and <Class>Value is the member -> protocol token table.     *)
(* "None" and "BAD" stand for arguments that are no member of any enum.    *)
(***************************************************************************)
EXTENDS Integers, Sequences, FiniteSets, TLC

VARIABLES
    underTest,   \* which instrument the test process drives: "U3606" | "U2723"
    psuPc,       \* position of the PSU session: "new" | "block" | "session" | "test" | "done" | "failed"
    psuCfg,      \* constructor arguments of KeysightU3606SupplyAndMultimeter
    psuHandle,   \* KeysightU3606Wrapper._device_handle: "none" | "open" | "closed"
    psuLeaked,   \* transports opened by open() and no longer referenced, still open
    psuOutp,     \* instrument: DC output active (OUT) or standby (SBY)
    psuInst,     \* instrument: programmed voltage level, continuous-measurement mode
    psuOp,       \* the last operation: name, result, commands written, output before
    smuPc,       \* position of the SMU scoped session
    smuCfg,      \* constructor arguments of KeysightU2723SourceMeasureUnit
    smuHandle,   \* KeysightU2723Wrapper._device_handle
    smuLeaked,   \* transports opened by open() and no longer referenced, still open
    smuOutp,     \* instrument: per channel, output enabled
    smuOp,       \* the last operation on the SMU session
    ctx,         \* per execution context sharing the session: the call in progress
    wire,        \* the transport operations of the contexts, in the order sent
    memo         \* the commands the probed call wrote the first time it was made

psuVars == <<psuPc, psuCfg, psuHandle, psuLeaked, psuOutp, psuInst, psuOp>>
smuVars == <<smuPc, smuCfg, smuHandle, smuLeaked, smuOutp, smuOp>>
ctxVars == <<ctx, wire>>
vars == <<underTest, psuPc, psuCfg, psuHandle, psuLeaked, psuOutp, psuInst, psuOp,
          smuPc, smuCfg, smuHandle, smuLeaked, smuOutp, smuOp, ctx, wire, memo>>

----------------------------------------------------------------------------
(* Program constants, in 1e-4 V / 1e-4 A.                                  *)

U3606_MAX_VOLTAGE_LIMIT == 300000
U3606_MAX_CURRENT_LIMIT == 10500
U2723_MAX_VOLTAGE_LIMIT == 200000
U2723_MIN_VOLTAGE_LIMIT == -200000
U2723_MAX_CURRENT_LIMIT == 1200
U2723_MIN_CURRENT_LIMIT == -1200

\* defaults of configure_dc_supply: over_voltage_limit = 30, over_current_limit = 1
DefaultOverVoltageLimit == 300000
DefaultOverCurrentLimit == 10000

\* defaults of the memory-list generators: current_limit = 0.1 A,
\* voltage_limit = 5 V (source-and-measure) and 20 V (pulse)
DefaultCurrentLimit == 1000
DefaultVoltageLimit == 50000
PulseVoltageLimit == 200000

\* defaults of the ramp, scan and square-wave configuration: ramp_steps = 100,
\* scan_dwelling = 2.0 s, frequency = 600 Hz, duty_cycle = 50 %,
\* pulse_width = 0.000833 s (in microseconds)
RampSteps == 100
ScanDwelling == 2
SquareFrequency == 600
SquareDutyCycle == 50
SquarePulseWidth == 833

----------------------------------------------------------------------------
(* Enumerations of the U3606 wrapper.                                      *)

DCOutputMode == {"CONSTANT_VOLTAGE", "CONSTANT_CURRENT"}
DCOutputModeValue == [m \in DCOutputMode |->
    IF m = "CONSTANT_VOLTAGE" THEN "VOLT" ELSE "CURR"]

DCOutputVoltageRange == {"MAX", "MIN", "AUTO"}
DCOutputVoltageRangeValue == [r \in DCOutputVoltageRange |-> r]

DCOutputCurrentRange == {"MAX", "DEFAULT", "MIN", "AUTO"}
DCOutputCurrentRangeValue == [r \in DCOutputCurrentRange |->
    IF r = "DEFAULT" THEN "DEF" ELSE r]

MultimeterMode == {"VOLTAGE", "CURRENT", "RESISTANCE"}
MultimeterModeValue == [m \in MultimeterMode |->
    CASE m = "VOLTAGE" -> "VOLT" [] m = "CURRENT" -> "CURR" [] OTHER -> "RES"]

MultimeterRange == {"AUTO", "MAX", "MIN"}
MultimeterRangeValue == [r \in MultimeterRange |-> r]

MultimeterResolution == {"MAX", "MIN"}
MultimeterResolutionValue == [r \in MultimeterResolution |-> r]

SignalType == {"AC", "DC"}
SignalTypeValue == [s \in SignalType |-> s]

----------------------------------------------------------------------------
(* Commands and results of an operation.                                   *)

Cmd(h, t, v, c) == [hdr |-> h, tok |-> t, val |-> v, ch |-> c]

\* the transport's close(), recorded in the order of the writes around it
CLOSE == Cmd("<close>", <<>>, <<>>, 0)

\* an operation that returned after writing cmds, and one that raised
Wrote(cmds) == [result |-> "ok", out |-> cmds]
Raise(err)  == [result |-> err, out |-> <<>>]

\* a query that returned the instrument's reply after sending cmd
Asked(cmd, reply) == [result |-> "ok", out |-> <<cmd>>, reply |-> reply]

\* statement sequencing: b runs only when a did not raise; the value
\* returned is that of the last statement
Then(a, b) ==
    IF a.result # "ok" THEN a
    ELSE [b EXCEPT !.out = a.out \o b.out]

\* the value an operation returned: the reply of its query, <<>> for None
Returned(r) == IF "reply" \in DOMAIN r THEN r.reply ELSE <<>>

\* A transport failure on the f-th transport operation of r (f = 0: none):
\* the operations before it were carried out, the exception propagates.
Deliver(r, f) ==
    IF f \in 1..Len(r.out)
    THEN [result |-> "ProtocolError", out |-> SubSeq(r.out, 1, f - 1)]
    ELSE r

\* the transport operations of one call at which a failure is injected
MaxFaultAt == 4

Faults(r) == 0..(IF Len(r.out) < MaxFaultAt THEN Len(r.out) ELSE MaxFaultAt)

Rejected(r) == r.result \in {"OutOfRange", "InvalidOption"}

----------------------------------------------------------------------------
(* KeysightU3606Wrapper: the operations, each the commands it writes.      *)

clear_presets == Wrote(<<Cmd("*rst; status:preset; *cls", <<>>, <<>>, 0)>>)

clear_status == Wrote(<<Cmd("*CLS", <<>>, <<>>, 0)>>)

wait == Wrote(<<Cmd("*WAI", <<>>, <<>>, 0)>>)

\* what the U3606 answers to a query: the output-status query reports the
\* output state, any other query a text of its own
PsuReply(outp, q) ==
    IF q.hdr = "OUTP:STAT?" THEN <<IF outp THEN "1" ELSE "0">>
    ELSE <<q.hdr, "reply">>

\* a query that sends its command before the wait directive
query_wait_after(query_command, instrument) ==
    Then(Asked(query_command, PsuReply(instrument, query_command)), wait)

\* query(query_command): wait(), then the query; returns str(response)
query(query_command, instrument) ==
    Then(wait, Asked(query_command, PsuReply(instrument, query_command)))

\* write(send_command): wait(), then the command
write(send_command) == Then(wait, Wrote(<<send_command>>))

enable_dc_output == Wrote(<<Cmd("OUTP:STAT", <<"ON">>, <<>>, 0)>>)

\* a disable that sends nothing
disable_dc_output_skipped == Wrote(<<>>)

disable_dc_output == Wrote(<<Cmd("OUTP:STAT", <<"OFF">>, <<>>, 0)>>)

\* a setter whose upper bound is exclusive
set_dc_supply_output_voltage_exclusive(output_voltage) ==
    IF output_voltage < 0 \/ output_voltage >= U3606_MAX_VOLTAGE_LIMIT
    THEN Raise("OutOfRange")
    ELSE Wrote(<<Cmd("SOUR:VOLT:LEV:IMM:AMPL", <<>>, <<output_voltage>>, 0)>>)

\* a setter that keeps the level it wrote last and skips the write of a
\* level the instrument already has
set_dc_supply_output_voltage_cached(output_voltage) ==
    IF output_voltage < 0 \/ output_voltage > U3606_MAX_VOLTAGE_LIMIT
    THEN Raise("OutOfRange")
    ELSE IF psuInst.level = <<output_voltage>> THEN Wrote(<<>>)
    ELSE Wrote(<<Cmd("SOUR:VOLT:LEV:IMM:AMPL", <<>>, <<output_voltage>>, 0)>>)

set_dc_supply_output_voltage(output_voltage) ==
    IF output_voltage < 0 \/ output_voltage > U3606_MAX_VOLTAGE_LIMIT
    THEN Raise("OutOfRange")
    ELSE Wrote(<<Cmd("SOUR:VOLT:LEV:IMM:AMPL", <<>>, <<output_voltage>>, 0)>>)

set_dc_supply_output_current(output_current) ==
    IF output_current < 0 \/ output_current > U3606_MAX_CURRENT_LIMIT
    THEN Raise("OutOfRange")
    ELSE Wrote(<<Cmd("SOUR:CURR:LEV:IMM:AMPL", <<>>, <<output_current>>, 0)>>)

set_dc_supply_protection_voltage(ovp_limit) ==
    Wrote(<<Cmd("VOLT:PROT", <<"V">>, <<ovp_limit>>, 0)>>)

set_dc_supply_protection_current(ocp_limit) ==
    Wrote(<<Cmd("CURR:PROT", <<"A">>, <<ocp_limit>>, 0)>>)

\* a configuration that writes the limits and ranges of both quantities
configure_dc_supply_both_limits(output_mode, output_value, over_voltage_limit, over_current_limit, voltage_range, current_range) ==
    IF output_mode \notin DCOutputMode THEN Raise("InvalidOption")
    ELSE IF voltage_range \notin DCOutputVoltageRange THEN Raise("InvalidOption")
    ELSE IF current_range \notin DCOutputCurrentRange THEN Raise("InvalidOption")
    ELSE Then(disable_dc_output,
         Then(IF DCOutputModeValue[output_mode] = DCOutputModeValue["CONSTANT_VOLTAGE"]
              THEN set_dc_supply_output_voltage(output_value)
              ELSE set_dc_supply_output_current(output_value),
              Wrote(<<Cmd("SOUR:CURR:LIM", <<>>, <<over_current_limit>>, 0),
                      Cmd("SOUR:VOLT:LIM", <<>>, <<over_voltage_limit>>, 0),
                      Cmd("SOUR:VOLT:RANG",
                          <<DCOutputVoltageRangeValue[voltage_range]>>, <<>>, 0),
                      Cmd("SOUR:CURR:RANG",
                          <<DCOutputCurrentRangeValue[current_range]>>, <<>>, 0)>>)))

\* a configuration that disables the output after its parameter writes
configure_dc_supply_disable_last(output_mode, output_value, over_voltage_limit, over_current_limit, voltage_range, current_range) ==
    IF output_mode \notin DCOutputMode THEN Raise("InvalidOption")
    ELSE IF voltage_range \notin DCOutputVoltageRange THEN Raise("InvalidOption")
    ELSE IF current_range \notin DCOutputCurrentRange THEN Raise("InvalidOption")
    ELSE Then(IF DCOutputModeValue[output_mode] = DCOutputModeValue["CONSTANT_VOLTAGE"]
              THEN Then(set_dc_supply_output_voltage(output_value),
                        Wrote(<<Cmd("SOUR:CURR:LIM", <<>>, <<over_current_limit>>, 0),
                                Cmd("SOUR:VOLT:RANG",
                                    <<DCOutputVoltageRangeValue[voltage_range]>>, <<>>, 0)>>))
              ELSE Then(set_dc_supply_output_current(output_value),
                        Wrote(<<Cmd("SOUR:VOLT:LIM", <<>>, <<over_voltage_limit>>, 0),
                                Cmd("SOUR:CURR:RANG",
                                    <<DCOutputCurrentRangeValue[current_range]>>, <<>>, 0)>>)),
              disable_dc_output)

configure_dc_supply(output_mode, output_value, over_voltage_limit, over_current_limit, voltage_range, current_range) ==
    IF output_mode \notin DCOutputMode THEN Raise("InvalidOption")
    ELSE IF voltage_range \notin DCOutputVoltageRange THEN Raise("InvalidOption")
    ELSE IF current_range \notin DCOutputCurrentRange THEN Raise("InvalidOption")
    ELSE Then(disable_dc_output,
         IF DCOutputModeValue[output_mode] = DCOutputModeValue["CONSTANT_VOLTAGE"]
         THEN Then(set_dc_supply_output_voltage(output_value),
                   Wrote(<<Cmd("SOUR:CURR:LIM", <<>>, <<over_current_limit>>, 0),
                           Cmd("SOUR:VOLT:RANG",
                               <<DCOutputVoltageRangeValue[voltage_range]>>, <<>>, 0)>>))
         ELSE Then(set_dc_supply_output_current(output_value),
                   Wrote(<<Cmd("SOUR:VOLT:LIM", <<>>, <<over_voltage_limit>>, 0),
                           Cmd("SOUR:CURR:RANG",
                               <<DCOutputCurrentRangeValue[current_range]>>, <<>>, 0)>>)))

\* a ramp configuration that does not disable the output
configure_dc_supply_ramp_func_no_disable(output_mode, ramp_value, ramp_steps) ==
    IF output_mode \notin DCOutputMode THEN Raise("InvalidOption")
    ELSE IF DCOutputModeValue[output_mode] = DCOutputModeValue["CONSTANT_VOLTAGE"]
         THEN Wrote(<<Cmd("VOLT:RAMP", <<>>, <<ramp_value>>, 0),
                      Cmd("VOLT:RAMP:STEP", <<>>, <<ramp_steps>>, 0)>>)
         ELSE Wrote(<<Cmd("CURR:RAMP", <<>>, <<ramp_value>>, 0),
                      Cmd("CURR:RAMP:STEP", <<>>, <<ramp_steps>>, 0)>>)

configure_dc_supply_ramp_func(output_mode, ramp_value, ramp_steps) ==
    IF output_mode \notin DCOutputMode THEN Raise("InvalidOption")
    ELSE Then(disable_dc_output,
         IF DCOutputModeValue[output_mode] = DCOutputModeValue["CONSTANT_VOLTAGE"]
         THEN Wrote(<<Cmd("VOLT:RAMP", <<>>, <<ramp_value>>, 0),
                      Cmd("VOLT:RAMP:STEP", <<>>, <<ramp_steps>>, 0)>>)
         ELSE Wrote(<<Cmd("CURR:RAMP", <<>>, <<ramp_value>>, 0),
                      Cmd("CURR:RAMP:STEP", <<>>, <<ramp_steps>>, 0)>>))

configure_dc_supply_scan_func(output_mode, scan_value, scan_steps, scan_dwelling) ==
    IF output_mode \notin DCOutputMode THEN Raise("InvalidOption")
    ELSE Then(disable_dc_output,
         IF DCOutputModeValue[output_mode] = DCOutputModeValue["CONSTANT_VOLTAGE"]
         THEN Wrote(<<Cmd("VOLT:SCAN", <<>>, <<scan_value>>, 0),
                      Cmd("VOLT:SCAN:STEP", <<>>, <<scan_steps>>, 0),
                      Cmd("VOLT:SCAN:DWEL", <<>>, <<scan_dwelling>>, 0)>>)
         ELSE Wrote(<<Cmd("CURR:SCAN", <<>>, <<scan_value>>, 0),
                      Cmd("CURR:SCAN:STEP", <<>>, <<scan_steps>>, 0),
                      Cmd("CURR:SCAN:DWEL", <<>>, <<scan_dwelling>>, 0)>>))

configure_dc_supply_square_func(amplitude, frequency, duty_cycle, pulse_width) ==
    Then(disable_dc_output,
         Wrote(<<Cmd("SQU:AMPL", <<>>, <<amplitude>>, 0),
                 Cmd("SQU:FREQ", <<>>, <<frequency>>, 0),
                 Cmd("SQU:DCYC", <<>>, <<duty_cycle>>, 0),
                 Cmd("SQU:PWID", <<>>, <<pulse_width>>, 0)>>))

\* a multimeter configuration that sends the signal type for every mode
configure_multimeter_always_signal(measure_mode, measure_range, measure_resolution, signal_type) ==
    IF measure_mode \notin MultimeterMode THEN Raise("InvalidOption")
    ELSE IF measure_range \notin MultimeterRange THEN Raise("InvalidOption")
    ELSE IF measure_resolution \notin MultimeterResolution THEN Raise("InvalidOption")
    ELSE IF signal_type \notin SignalType THEN Raise("InvalidOption")
    ELSE Wrote(<<Cmd("CONF", <<MultimeterModeValue[measure_mode],
                               SignalTypeValue[signal_type],
                               MultimeterRangeValue[measure_range],
                               MultimeterResolutionValue[measure_resolution]>>,
                     <<>>, 0)>>)

configure_multimeter(measure_mode, measure_range, measure_resolution, signal_type) ==
    IF measure_mode \notin MultimeterMode THEN Raise("InvalidOption")
    ELSE IF measure_range \notin MultimeterRange THEN Raise("InvalidOption")
    ELSE IF measure_resolution \notin MultimeterResolution THEN Raise("InvalidOption")
    ELSE IF signal_type \notin SignalType THEN Raise("InvalidOption")
    ELSE IF \/ MultimeterModeValue[measure_mode] = MultimeterModeValue["VOLTAGE"]
            \/ MultimeterModeValue[measure_mode] = MultimeterModeValue["CURRENT"]
         THEN Wrote(<<Cmd("CONF", <<MultimeterModeValue[measure_mode],
                                    SignalTypeValue[signal_type],
                                    MultimeterRangeValue[measure_range],
                                    MultimeterResolutionValue[measure_resolution]>>,
                          <<>>, 0)>>)
         ELSE Wrote(<<Cmd("CONF", <<MultimeterModeValue[measure_mode],
                                    MultimeterRangeValue[measure_range],
                                    MultimeterResolutionValue[measure_resolution]>>,
                          <<>>, 0)>>)

----------------------------------------------------------------------------
(* KeysightU3606Wrapper: the typed queries and the multimeter operations.  *)
(* Each sends its command straight to the transport, without wait().       *)

\* the instrument as a query sees it: its output state, its programmed
\* level and its continuous mode, d the factory defaults in force after a
\* reset (the repository does not say what they are)
PsuSeen(outp, inst, d) ==
    [outp  |-> outp,
     level |-> IF inst.level = <<>> THEN <<d.level>> ELSE inst.level,
     cont  |-> IF inst.cont = "RST" THEN d.cont ELSE inst.cont]

PsuFactory == [level : {0, U3606_MAX_VOLTAGE_LIMIT}, cont : {"ON", "OFF"}]

\* what the U3606 answers to the typed queries
PsuAnswer(instrument, q) ==
    CASE q.hdr = "OUTP?"      -> <<IF instrument.outp THEN "1" ELSE "0">>
      [] q.hdr = "VOLT?"      -> instrument.level
      [] q.hdr = "INIT:CONT?" -> <<IF instrument.cont = "ON" THEN "1" ELSE "0">>
      [] OTHER                -> <<q.hdr, "reply">>

\* self._device_handle.query(q)
PsuAsk(q, instrument) == Asked(q, PsuAnswer(instrument, q))

\* an error query that raises when the instrument reports an error
query_system_errors_raising(error_queue) ==
    IF error_queue[1] # "+0" THEN Raise("InstrumentError")
    ELSE Asked(Cmd("SYST:ERR?", <<>>, <<>>, 0), error_queue)

\* query_system_errors(): returns str(reply), whatever the reply
query_system_errors(error_queue) == Asked(Cmd("SYST:ERR?", <<>>, <<>>, 0), error_queue)

query_dc_supply_output_voltage(instrument) == PsuAsk(Cmd("VOLT?", <<>>, <<>>, 0), instrument)

query_dc_supply_output_status(instrument) == PsuAsk(Cmd("OUTP?", <<>>, <<>>, 0), instrument)

enable_continuous_mode == Wrote(<<Cmd("INIT:CONT", <<"ON">>, <<>>, 0)>>)

disable_continuous_mode == Wrote(<<Cmd("INIT:CONT", <<"OFF">>, <<>>, 0)>>)

query_continuous_mode_status(instrument) == PsuAsk(Cmd("INIT:CONT?", <<>>, <<>>, 0), instrument)

fetch(instrument) == PsuAsk(Cmd("FETC?", <<>>, <<>>, 0), instrument)

\* a read that switches continuous mode off itself before it triggers
read_disabling(instrument) == Then(disable_continuous_mode, PsuAsk(Cmd("READ?", <<>>, <<>>, 0), instrument))

read(instrument) == PsuAsk(Cmd("READ?", <<>>, <<>>, 0), instrument)

measure(measure_mode, measure_range, measure_resolution, signal_type, instrument) ==
    IF measure_mode \notin MultimeterMode THEN Raise("InvalidOption")
    ELSE IF measure_range \notin MultimeterRange THEN Raise("InvalidOption")
    ELSE IF measure_resolution \notin MultimeterResolution THEN Raise("InvalidOption")
    ELSE IF signal_type \notin SignalType THEN Raise("InvalidOption")
    ELSE IF \/ MultimeterModeValue[measure_mode] = MultimeterModeValue["VOLTAGE"]
            \/ MultimeterModeValue[measure_mode] = MultimeterModeValue["CURRENT"]
         THEN PsuAsk(Cmd("MEAS?", <<MultimeterModeValue[measure_mode],
                                     SignalTypeValue[signal_type],
                                     MultimeterRangeValue[measure_range],
                                     MultimeterResolutionValue[measure_resolution]>>,
                         <<>>, 0), instrument)
         ELSE PsuAsk(Cmd("MEAS?", <<MultimeterModeValue[measure_mode],
                                     MultimeterRangeValue[measure_range],
                                     MultimeterResolutionValue[measure_resolution]>>,
                         <<>>, 0), instrument)

----------------------------------------------------------------------------
(* Replies read as text.  A reply is a sequence of one-character strings,  *)
(* so that str.find and the pattern match are computed.                    *)

\* Python's  s.find(sub): the lowest index (from 0) at which sub starts in
\* s, -1 when it does not occur
Find(s, sub) ==
    IF \E i \in 0..(Len(s) - Len(sub)) : SubSeq(s, i + 1, i + Len(sub)) = sub
    THEN (CHOOSE i \in 0..(Len(s) - Len(sub)) :
              /\ SubSeq(s, i + 1, i + Len(sub)) = sub
              /\ \A j \in 0..(i - 1) : SubSeq(s, j + 1, j + Len(sub)) # sub)
    ELSE -1

\* is_operation_complete(): True when "1" is found at index 0 of the reply
\* to *OPC?
is_operation_complete(opc_reply) ==
    Asked(Cmd("*OPC?", <<>>, <<>>, 0),
          <<IF Find(opc_reply, <<"1">>) = 0 THEN "True" ELSE "False">>)

Digits == {"0", "1", "2", "3", "4", "5", "6", "7", "8", "9"}

\* \d+ matches the whole of s
AllDigits(s) == s # <<>> /\ \A i \in DOMAIN s : s[i] \in Digits

\* -?\d+(?:\.\d+) matches the whole of s: an optional minus sign, digits,
\* a point, digits
SignedDecimal(s) ==
    LET u == IF s # <<>> /\ s[1] = "-" THEN Tail(s) ELSE s
    IN \E k \in 2..(Len(u) - 1) :
          /\ u[k] = "."
          /\ AllDigits(SubSeq(u, 1, k - 1))
          /\ AllDigits(SubSeq(u, k + 1, Len(u)))

\* re.match(r"^-?\d+(?:\.\d+)$", text) is not None; $ matches at the end
\* of the text and before a line end that ends it
NumericPattern(text) ==
    \/ SignedDecimal(text)
    \/ /\ text # <<>>
       /\ text[Len(text)] = "\n"
       /\ SignedDecimal(SubSeq(text, 1, Len(text) - 1))

\* read_logged_data(): float(logged_data) when the pattern matches,
\* str(logged_data) otherwise; the value returned is its type and its text
read_logged_data(logged_data) ==
    Asked(Cmd("LOG:DATA?", <<>>, <<>>, 0),
          IF NumericPattern(logged_data)
          THEN <<"float">> \o logged_data
          ELSE <<"str">> \o logged_data)

----------------------------------------------------------------------------
(* fixtures.py: the PSU fixtures up to their yield.  An option of          *)
(* pytest.ini is <<>> when it is not defined and <<x>> when it is.         *)

\* a fixture that enables the output before it configures the supply
psu_constant_voltage_output_enable_first(cv_output_value) ==
    IF cv_output_value = <<>> THEN Raise("NotDefined")
    ELSE Then(enable_dc_output,
              configure_dc_supply("CONSTANT_VOLTAGE", cv_output_value[1],
                                  DefaultOverVoltageLimit, DefaultOverCurrentLimit,
                                  "AUTO", "AUTO"))

psu_constant_voltage_output(cv_output_value) ==
    IF cv_output_value = <<>> THEN Raise("NotDefined")
    ELSE Then(configure_dc_supply("CONSTANT_VOLTAGE", cv_output_value[1],
                                  DefaultOverVoltageLimit, DefaultOverCurrentLimit,
                                  "AUTO", "AUTO"),
              enable_dc_output)

psu_constant_current_output(cc_output_value) ==
    IF cc_output_value = <<>> THEN Raise("NotDefined")
    ELSE Then(configure_dc_supply("CONSTANT_CURRENT", cc_output_value[1],
                                  DefaultOverVoltageLimit, DefaultOverCurrentLimit,
                                  "AUTO", "AUTO"),
              enable_dc_output)

\* an output fixture whose code after the yield leaves the output as it is
psu_output_teardown_nothing == Wrote(<<>>)

\* the code of both output fixtures after their yield
psu_output_teardown == disable_dc_output

\* psu_handle after open(): clear_presets(), clear_status()
psu_handle == Then(clear_presets, clear_status)

\* psu_handle after its yield: query_system_errors(), clear_presets(),
\* clear_status(), close()
psu_handle_teardown(error_queue) ==
    Then(query_system_errors(error_queue),
    Then(clear_presets,
    Then(clear_status, Wrote(<<CLOSE>>))))

----------------------------------------------------------------------------
(* The U3606 as the wrapper's docstrings describe it: OUTP:STAT ON makes   *)
(* the output active, OUTP:STAT OFF puts it on standby, and the reset      *)
(* command returns the instrument to its default state, output on standby.*)

PsuReact(outp, c) ==
    IF c.hdr = "OUTP:STAT" THEN c.tok = <<"ON">>
    ELSE IF c.hdr \in {"*rst; status:preset; *cls", "*RST"} THEN FALSE
    ELSE outp

RECURSIVE PsuAfter(_, _)
PsuAfter(outp, cmds) ==
    IF cmds = <<>> THEN outp
    ELSE PsuAfter(PsuReact(outp, Head(cmds)), Tail(cmds))

\* headers of the writes that set an output parameter
PsuSetpointHdrs == {"SOUR:VOLT:LEV:IMM:AMPL", "SOUR:CURR:LEV:IMM:AMPL"}
PsuLimitHdrs == {"SOUR:CURR:LIM", "SOUR:VOLT:LIM", "VOLT:PROT", "CURR:PROT"}
PsuRangeHdrs == {"SOUR:VOLT:RANG", "SOUR:CURR:RANG"}
PsuFuncHdrs == {"VOLT:RAMP", "VOLT:RAMP:STEP", "CURR:RAMP", "CURR:RAMP:STEP",
                "VOLT:SCAN", "VOLT:SCAN:STEP", "VOLT:SCAN:DWEL",
                "CURR:SCAN", "CURR:SCAN:STEP", "CURR:SCAN:DWEL",
                "SQU:AMPL", "SQU:FREQ", "SQU:DCYC", "SQU:PWID"}
PsuParamHdrs == PsuSetpointHdrs \cup PsuLimitHdrs \cup PsuRangeHdrs \cup PsuFuncHdrs

\* The programmed voltage level and the continuous-measurement mode, as the
\* docstrings describe them: the level is the last one written, INIT:CONT
\* ON / OFF switch continuous mode, READ? also switches it off and FETC?
\* does not; a reset returns both to the factory defaults.
PsuAtReset == [level |-> <<>>, cont |-> "RST"]

PsuInstReact(inst, c) ==
    IF c.hdr = "SOUR:VOLT:LEV:IMM:AMPL" THEN [inst EXCEPT !.level = c.val]
    ELSE IF c.hdr = "INIT:CONT" THEN [inst EXCEPT !.cont = c.tok[1]]
    ELSE IF c.hdr = "READ?" THEN [inst EXCEPT !.cont = "OFF"]
    ELSE IF c.hdr \in {"*rst; status:preset; *cls", "*RST"} THEN PsuAtReset
    ELSE inst

RECURSIVE PsuInstAfter(_, _)
PsuInstAfter(inst, cmds) ==
    IF cmds = <<>> THEN inst
    ELSE PsuInstAfter(PsuInstReact(inst, Head(cmds)), Tail(cmds))

\* the instrument before the session: as a reset leaves it, or as an
\* earlier session left it
PsuInsts == {PsuAtReset, [level |-> <<120000>>, cont |-> "ON"]}

----------------------------------------------------------------------------
(* Device directory and open().  A resource address and an identification  *)
(* reply are strings, modelled as sequences of one-character strings so    *)
(* that str.find and the substring test are computed, not assumed.         *)

USB == <<"U", "S", "B">>

StartsWith(s, p) == Len(s) >= Len(p) /\ SubSeq(s, 1, Len(p)) = p

\* Python's  sub in s
Contains(s, sub) ==
    \E i \in 0..(Len(s) - Len(sub)) : SubSeq(s, i + 1, i + Len(sub)) = sub

Serial == <<"M", "1">>

AddrTarget   == <<"U", "S", "B", ":", "M", "1">>
AddrOther    == <<"U", "S", "B", ":", "M", "2">>
AddrNotUsb   == <<"G", "P", "I", "B", ":", "M", "1">>
AddrSameSer  == <<"U", "S", "B", ":", "M", "1", "7">>

U3606Token == <<"U", "3", "6", "0", "6">>
U2723Token == <<"U", "2", "7", "2", "3">>

\* what the instrument behind an address answers to *IDN?; the target of a
\* session is the instrument of the session's own model
IdnReply(addr, model) ==
    IF addr = AddrTarget THEN <<"K", "S", ",">> \o model \o <<"B">>
    ELSE IF addr = AddrSameSer THEN <<"K", "S", ",", "3", "4", "4", "6", "1">>
    ELSE <<"K", "S", ",">> \o model \o <<"A">>

\* list_resources() results the sessions are constructed with
Directories ==
    { <<>>, <<AddrTarget>>, <<AddrNotUsb, AddrOther>>,
      <<AddrSameSer, AddrTarget>>, <<AddrSameSer>> }

IDN == Cmd("*IDN?", <<>>, <<>>, 0)

\* __init__(serial_no, device_manager, pyvisa_devices): raises when nothing
\* was detected
wrapper_init_not_found(pyvisa_devices) ==
    IF pyvisa_devices = <<>> THEN Raise("DeviceNotFound") ELSE Wrote(<<>>)

wrapper_init(pyvisa_devices) ==
    IF pyvisa_devices = <<>> THEN Raise("NoDevicesDetected") ELSE Wrote(<<>>)

\* a scan that opens every USB resource, whatever its serial number
RECURSIVE OpenScan_any_usb(_, _, _, _)
OpenScan_any_usb(devices, serial_no, model, st) ==
    IF devices = <<>> THEN st
    ELSE LET device == Head(devices) IN
         IF StartsWith(device, USB)
         THEN LET opened == [st EXCEPT
                      !.handle = "open",
                      !.leaked = IF st.handle = "open" THEN @ + 1 ELSE @,
                      !.url = device,
                      !.asked = Append(@, device),
                      !.out = Append(@, IDN)]
              IN IF Contains(IdnReply(device, model), model)
                 THEN [opened EXCEPT !.found = TRUE]
                 ELSE OpenScan_any_usb(Tail(devices), serial_no, model, opened)
         ELSE OpenScan_any_usb(Tail(devices), serial_no, model, st)

\* open(): scan the detected devices in order.  st = [handle, leaked, found,
\* url, asked, out]: the wrapper's handle, the transports opened and dropped
\* while open, _target_device_found, _device_url, the resources that were
\* opened and sent the identification query, and the queries sent.
RECURSIVE OpenScan(_, _, _, _)
OpenScan(devices, serial_no, model, st) ==
    IF devices = <<>> THEN st
    ELSE LET device == Head(devices) IN
         IF StartsWith(device, USB) /\ Contains(device, serial_no)
         THEN LET opened == [st EXCEPT
                      !.handle = "open",
                      !.leaked = IF st.handle = "open" THEN @ + 1 ELSE @,
                      !.url = device,
                      !.asked = Append(@, device),
                      !.out = Append(@, IDN)]
              IN IF Contains(IdnReply(device, model), model)
                 THEN [opened EXCEPT !.found = TRUE]
                 ELSE OpenScan(Tail(devices), serial_no, model, opened)
         ELSE OpenScan(Tail(devices), serial_no, model, st)

open(devices, serial_no, model) ==
    LET st == OpenScan(devices, serial_no, model,
                       [handle |-> "none", leaked |-> 0, found |-> FALSE,
                        url |-> <<>>, asked |-> <<>>, out |-> <<>>])
    IN [result |-> IF st.found THEN "ok" ELSE "DeviceNotFound",
        out |-> st.out, handle |-> st.handle, leaked |-> st.leaked,
        url |-> st.url, asked |-> st.asked]

\* close(): closes the handle when the wrapper holds one; the wrapper keeps
\* the handle, and the transport ignores the close of a closed session
close(handle) == IF handle = "none" THEN "none" ELSE "closed"

\* a close() that does not test the handle
close_session_unguarded(handle) ==
    IF handle = "none" THEN Raise("AttributeError") ELSE Wrote(<<CLOSE>>)

\* the transport operation of close(): none when the wrapper holds no handle
close_session(handle) == IF handle = "none" THEN Wrote(<<>>) ELSE Wrote(<<CLOSE>>)

----------------------------------------------------------------------------
(* Inputs.                                                                 *)

NoEnum == {"None", "BAD"}

\* setpoints offered to the U3606: both bounds of each range and their neighbours
PsuValues == {-1, 0, U3606_MAX_CURRENT_LIMIT, U3606_MAX_CURRENT_LIMIT + 1,
              U3606_MAX_VOLTAGE_LIMIT, U3606_MAX_VOLTAGE_LIMIT + 1}

NoCfg == [devices |-> <<>>]

\* KeysightU3606SupplyAndMultimeter.__init__ arguments
PsuCfgs ==
    [devices : Directories,
     dc_output_mode : DCOutputMode \cup NoEnum,
     mulitimeter_mode : {"CURRENT", "RESISTANCE", "None", "BAD"},
     dc_output_value : PsuValues,
     dc_output_volt_range : {"AUTO", "None"},
     dc_output_curr_range : {"AUTO"},
     multimeter_range : {"AUTO"},
     multimeter_res : {"MIN"},
     multimeter_signal : {"DC"}]

NoOp == [name |-> "none", arg |-> <<>>, result |-> "ok", out |-> <<>>, before |-> FALSE, reply |-> <<>>]

Op(n, a, r, b) == [name |-> n, arg |-> a, result |-> r.result, out |-> r.out, before |-> b, reply |-> Returned(r)]

\* The calls whose commands are compared across the histories of a session:
\* one call of each kind, with arguments the actions below offer.
Probes ==
    << [name |-> "configure_dc_supply", arg |-> <<"CONSTANT_VOLTAGE", 0, "AUTO", "DEFAULT">>],
       [name |-> "set_dc_supply_output_voltage", arg |-> <<0>>],
       [name |-> "set_dc_supply_output_current", arg |-> <<U3606_MAX_CURRENT_LIMIT>>],
       [name |-> "configure_multimeter", arg |-> <<"VOLTAGE", "DC">>],
       [name |-> "measure", arg |-> <<"RESISTANCE", "DC">>],
       [name |-> "set_smu_source_voltage", arg |-> <<"CH1", 0>>],
       [name |-> "set_smu_current_range", arg |-> <<"CH2", "R1mA">>],
       [name |-> "smu_source_voltage_measure_current", arg |-> <<"CH1", 200, "Mem1", 2, <<5>>>>],
       [name |-> "create_smu_pulse_voltage", arg |-> <<"CH3", 200, "Mem2", 1, 5>>] >>

\* the probes of the U3606 wrapper are the first five
PsuProbes == 1..5
SmuProbes == 6..Len(Probes)

\* probe: the place of the probed call in Probes (0: none); set, out and
\* before: whether it was made, what it wrote and whether an output of the
\* instrument was on before it
NoMemo == [probe |-> 0, set |-> FALSE, out |-> <<>>, before |-> FALSE]

IsProbe(m, n, a) == m.probe > 0 /\ n = Probes[m.probe].name /\ a = Probes[m.probe].arg

\* the first completed call of the probe is remembered
Remember(m, n, a, r, instrument) ==
    IF ~m.set /\ IsProbe(m, n, a) /\ r.result = "ok"
    THEN [m EXCEPT !.set = TRUE, !.out = r.out, !.before = instrument]
    ELSE m

\* psuOp / smuOp record the call in progress until it has returned to the
\* block; the block makes its next call, or ends, only then
PsuAtCall == underTest = "U3606" /\ psuPc = "block" /\ psuOp = NoOp

SmuAtCall == underTest = "U2723" /\ smuPc = "block" /\ smuOp = NoOp

\* the block talks to the instrument while the transport is open
PsuInBlock == PsuAtCall /\ psuHandle = "open"

\* the psu_handle fixture has yielded the wrapper: a test may ask for it
PsuInSession ==
    underTest = "U3606" /\ psuPc = "session" /\ psuOp = NoOp /\ psuHandle = "open"

\* an output fixture has yielded the wrapper: the body of a test is running
PsuInTest ==
    underTest = "U3606" /\ psuPc = "test" /\ psuOp = NoOp /\ psuHandle = "open"

\* the calls the fixture tests make: in a block, or on the wrapper a
\* fixture yielded
PsuInUse == PsuInBlock \/ PsuInSession \/ PsuInTest

\* an SMU source fixture has yielded the wrapper
SmuInTest ==
    underTest = "U2723" /\ smuPc = "test" /\ smuOp = NoOp /\ smuHandle = "open"

SmuInBlock == SmuAtCall /\ smuHandle = "open"

----------------------------------------------------------------------------
(* KeysightU3606SupplyAndMultimeter: the scoped session.                   *)

\* __init__: the wrapper's constructor raises when nothing was detected
PsuConstruct ==
    /\ underTest = "U3606"
    /\ psuPc = "idle"
    /\ \E cfg \in PsuCfgs :
         /\ psuCfg' = cfg
         /\ psuPc' = IF wrapper_init(cfg.devices).result = "ok" THEN "new" ELSE "failed"
         /\ psuOp' = Op("__init__", <<cfg.devices>>, wrapper_init(cfg.devices), psuOutp)
    /\ psuHandle' = "none"
    /\ psuLeaked' = 0
    /\ UNCHANGED <<underTest, ctxVars, memo, psuOutp, psuInst, smuVars>>

\* an entry that configures the output before the multimeter
PsuEnterConfig_output_first(cfg) ==
    Then(IF cfg.dc_output_mode # "None"
         THEN configure_dc_supply(cfg.dc_output_mode, cfg.dc_output_value,
                                  DefaultOverVoltageLimit, DefaultOverCurrentLimit,
                                  cfg.dc_output_volt_range, cfg.dc_output_curr_range)
         ELSE Wrote(<<>>),
         IF cfg.mulitimeter_mode # "None"
         THEN configure_multimeter(cfg.mulitimeter_mode, cfg.multimeter_range,
                                   cfg.multimeter_res, cfg.multimeter_signal)
         ELSE Wrote(<<>>))

\* the body of __enter__ after open()
PsuEnterConfig(cfg) ==
    Then(IF cfg.mulitimeter_mode # "None"
         THEN configure_multimeter(cfg.mulitimeter_mode, cfg.multimeter_range,
                                   cfg.multimeter_res, cfg.multimeter_signal)
         ELSE Wrote(<<>>),
         IF cfg.dc_output_mode # "None"
         THEN configure_dc_supply(cfg.dc_output_mode, cfg.dc_output_value,
                                  DefaultOverVoltageLimit, DefaultOverCurrentLimit,
                                  cfg.dc_output_volt_range, cfg.dc_output_curr_range)
         ELSE Wrote(<<>>))

\* __enter__: an exception leaves the with statement without calling __exit__
PsuEnter ==
    /\ underTest = "U3606"
    /\ psuPc = "new"
    /\ LET o == open(psuCfg.devices, Serial, U3606Token)
           body == IF o.result = "ok" THEN PsuEnterConfig(psuCfg) ELSE Raise(o.result)
       IN \E f \in Faults(body) :
            LET r == Deliver(body, f)
                all == [result |-> r.result, out |-> o.out \o r.out]
            IN /\ psuOp' = Op("__enter__", <<psuCfg, o.url, o.asked>>, all, psuOutp)
               /\ psuPc' = IF r.result = "ok" THEN "block" ELSE "failed"
               /\ psuHandle' = o.handle
               /\ psuLeaked' = o.leaked
               /\ psuOutp' = PsuAfter(psuOutp, r.out)
               /\ psuInst' = PsuInstAfter(psuInst, r.out)
    /\ psuCfg' = NoCfg
    /\ UNCHANGED <<underTest, ctxVars, memo, smuVars>>

\* __exit__, called when the block ends, normally or by an exception:
\* clear_presets(), clear_status(), close()
\* an exit that clears the status before the presets
PsuExitBody_status_first == Then(Then(clear_status, clear_presets), Wrote(<<CLOSE>>))

PsuExitBody == Then(Then(clear_presets, clear_status), Wrote(<<CLOSE>>))

\* close() called on the wrapper, before open() or inside the block
PsuClose ==
    /\ underTest = "U3606"
    /\ psuPc = "new" \/ PsuAtCall
    /\ \E f \in Faults(close_session(psuHandle)) :
         LET r == Deliver(close_session(psuHandle), f)
         IN /\ psuOp' = Op("close", <<psuHandle>>, r, psuOutp)
            /\ psuHandle' = IF r.result = "ok" THEN close(psuHandle) ELSE psuHandle
    /\ UNCHANGED <<underTest, ctxVars, memo, psuPc, psuCfg, psuLeaked, psuOutp, psuInst, smuVars>>

\* a write to a closed transport raises: the exit of a block that closed
\* the session fails at its first write
PsuExit ==
    /\ PsuAtCall
    /\ \E exc \in BOOLEAN, f \in (IF psuHandle = "open" THEN Faults(PsuExitBody) ELSE {1}) :
         LET r == Deliver(PsuExitBody, f)
         IN /\ psuOp' = Op("__exit__", <<exc>>, r, psuOutp)
            /\ psuOutp' = PsuAfter(psuOutp, r.out)
            /\ psuInst' = PsuInstAfter(psuInst, r.out)
            /\ psuHandle' = IF r.result = "ok" THEN close(psuHandle) ELSE psuHandle
    /\ psuPc' = "done"
    /\ UNCHANGED <<underTest, ctxVars, memo, psuCfg, psuLeaked, smuVars>>

\* an operation of the wrapper called inside the block
PsuCall(n, a, body) ==
    /\ \E f \in Faults(body) :
         LET r == Deliver(body, f)
         IN /\ psuOp' = Op(n, a, r, psuOutp)
            /\ psuOutp' = PsuAfter(psuOutp, r.out)
            /\ psuInst' = PsuInstAfter(psuInst, r.out)
            /\ memo' = Remember(memo, n, a, r, psuOutp)
    /\ UNCHANGED <<underTest, ctxVars, psuPc, psuCfg, psuHandle, psuLeaked, smuVars>>

\* raw commands and queries the block sends through write() and query()
PsuRawWrites ==
    {Cmd("*RST", <<>>, <<>>, 0), Cmd("SOUR:VOLT:LEV:IMM:AMPL", <<>>, <<50000>>, 0)}

PsuRawQueries == {Cmd("OUTP:STAT?", <<>>, <<>>, 0), Cmd("SYST:ERR?", <<>>, <<>>, 0)}

PsuWrite ==
    \E send_command \in PsuRawWrites :
        /\ PsuInBlock
        /\ PsuCall("write", <<send_command>>, write(send_command))

PsuQuery ==
    \E query_command \in PsuRawQueries :
        /\ PsuInBlock
        /\ PsuCall("query", <<query_command>>, query(query_command, psuOutp))

PsuEnableOutput ==
    /\ PsuInBlock
    /\ PsuCall("enable_dc_output", <<>>, enable_dc_output)

\* the call that has just returned is made again as the block's next
\* statement
PsuCallsAgain(n) ==
    /\ underTest = "U3606" /\ psuPc = "block" /\ psuHandle = "open"
    /\ psuOp.name = n /\ psuOp.result = "ok"

PsuDisableOutput ==
    /\ PsuInBlock \/ PsuCallsAgain("disable_dc_output")
    /\ PsuCall("disable_dc_output", <<>>, disable_dc_output)

PsuSetVoltage ==
    \E v \in PsuValues :
        /\ PsuInBlock
        /\ PsuCall("set_dc_supply_output_voltage", <<v>>,
                   set_dc_supply_output_voltage(v))

PsuSetCurrent ==
    \E i \in PsuValues :
        /\ PsuInBlock
        /\ PsuCall("set_dc_supply_output_current", <<i>>,
                   set_dc_supply_output_current(i))

PsuSetProtection ==
    \E q \in {"V", "A"}, lim \in {DefaultOverCurrentLimit} :
        /\ PsuInBlock
        /\ IF q = "V"
           THEN PsuCall("set_dc_supply_protection_voltage", <<lim>>,
                        set_dc_supply_protection_voltage(lim))
           ELSE PsuCall("set_dc_supply_protection_current", <<lim>>,
                        set_dc_supply_protection_current(lim))

PsuConfigure ==
    \E m \in DCOutputMode \cup {"BAD"}, v \in PsuValues,
       vr \in {"MAX", "AUTO", "BAD"}, cr \in {"DEFAULT", "BAD"} :
        /\ PsuInBlock
        /\ PsuCall("configure_dc_supply", <<m, v, vr, cr>>,
                configure_dc_supply(m, v, DefaultOverVoltageLimit,
                                    DefaultOverCurrentLimit, vr, cr))

PsuConfigureRamp ==
    \E m \in DCOutputMode \cup {"BAD"}, v \in PsuValues :
        /\ PsuInBlock
        /\ PsuCall("configure_dc_supply_ramp_func", <<m, v>>,
                configure_dc_supply_ramp_func(m, v, RampSteps))

PsuConfigureScan ==
    \E m \in DCOutputMode \cup {"BAD"}, v \in PsuValues, scan_steps \in {1, 100} :
        /\ PsuInBlock
        /\ PsuCall("configure_dc_supply_scan_func", <<m, v, scan_steps>>,
                configure_dc_supply_scan_func(m, v, scan_steps, ScanDwelling))

PsuConfigureSquare ==
    \E v \in PsuValues :
        /\ PsuInBlock
        /\ PsuCall("configure_dc_supply_square_func", <<v>>,
                configure_dc_supply_square_func(v, SquareFrequency, SquareDutyCycle,
                                                SquarePulseWidth))

PsuConfigureMultimeter ==
    \E m \in MultimeterMode \cup {"BAD"}, sg \in SignalType \cup {"BAD"} :
        /\ PsuInBlock
        /\ PsuCall("configure_multimeter", <<m, sg>>,
                configure_multimeter(m, "AUTO", "MIN", sg))

\* the psu_handle fixture: the wrapper is opened and reset for the tests
PsuHandle ==
    /\ underTest = "U3606"
    /\ psuPc = "new"
    /\ LET o == open(psuCfg.devices, Serial, U3606Token)
           body == IF o.result = "ok" THEN psu_handle ELSE Raise(o.result)
       IN \E f \in Faults(body) :
            LET r == Deliver(body, f)
                all == [result |-> r.result, out |-> o.out \o r.out]
            IN /\ psuOp' = Op("psu_handle", <<o.url, o.asked>>, all, psuOutp)
               /\ psuPc' = IF r.result = "ok" THEN "session" ELSE "failed"
               /\ psuHandle' = o.handle
               /\ psuLeaked' = o.leaked
               /\ psuOutp' = PsuAfter(psuOutp, r.out)
               /\ psuInst' = PsuInstAfter(psuInst, r.out)
    /\ psuCfg' = NoCfg
    /\ UNCHANGED <<underTest, ctxVars, memo, smuVars>>

\* replies of the error queue: no error, and an error of the instrument
ErrorQueue == {<<"+0", "No error">>, <<"-222", "Data out of range">>}

\* a fixture run by the test runner on the wrapper psu_handle yielded: up
\* to its yield (the position moves to raised when it raises before), or
\* from its yield to its end
PsuFixture(n, a, body, yielded, raised) ==
    /\ \E f \in Faults(body) :
         LET r == Deliver(body, f)
         IN /\ psuOp' = Op(n, a, r, psuOutp)
            /\ psuOutp' = PsuAfter(psuOutp, r.out)
            /\ psuInst' = PsuInstAfter(psuInst, r.out)
            /\ psuPc' = IF r.result = "ok" THEN yielded ELSE raised
            /\ psuHandle' = IF r.result = "ok" /\ yielded = "done"
                            THEN close(psuHandle) ELSE psuHandle
    /\ UNCHANGED <<underTest, ctxVars, memo, psuCfg, psuLeaked, smuVars>>

\* the psu_constant_voltage_output fixture up to its yield
PsuConstantVoltageOutput ==
    \E cv_output_value \in {<<>>, <<50000>>, <<U3606_MAX_VOLTAGE_LIMIT>>,
                            <<U3606_MAX_VOLTAGE_LIMIT + 1>>} :
        /\ PsuInSession
        /\ PsuFixture("psu_constant_voltage_output", cv_output_value,
                      psu_constant_voltage_output(cv_output_value), "test", "session")

\* the psu_constant_current_output fixture up to its yield
PsuConstantCurrentOutput ==
    \E cc_output_value \in {<<>>, <<5000>>, <<U3606_MAX_CURRENT_LIMIT + 1>>} :
        /\ PsuInSession
        /\ PsuFixture("psu_constant_current_output", cc_output_value,
                      psu_constant_current_output(cc_output_value), "test", "session")

\* the test has ended, by its last statement or by an exception: the test
\* runner resumes the output fixture after its yield
PsuOutputTeardown ==
    /\ underTest = "U3606" /\ psuPc = "test" /\ psuHandle = "open"
    /\ psuOp = NoOp \/ psuOp.result # "ok"
    /\ PsuFixture("psu_output_teardown", <<>>, psu_output_teardown, "session", "session")

\* the last test has ended: the test runner resumes psu_handle after its yield
PsuHandleTeardown ==
    \E error_queue \in ErrorQueue :
        /\ PsuInSession
        /\ PsuFixture("psu_handle_teardown", <<>>, psu_handle_teardown(error_queue),
                      "done", "done")

PsuQuerySystemErrors ==
    \E error_queue \in ErrorQueue :
        /\ PsuInBlock
        /\ PsuCall("query_system_errors", <<>>, query_system_errors(error_queue))

PsuQueryOutput ==
    \E d \in PsuFactory, q \in {"status", "voltage"} :
        /\ PsuInUse
        /\ IF q = "status"
           THEN PsuCall("query_dc_supply_output_status", <<>>,
                        query_dc_supply_output_status(PsuSeen(psuOutp, psuInst, d)))
           ELSE PsuCall("query_dc_supply_output_voltage", <<>>,
                        query_dc_supply_output_voltage(PsuSeen(psuOutp, psuInst, d)))

PsuContinuousMode ==
    \E d \in PsuFactory, q \in {"enable", "disable", "status"} :
        /\ PsuInUse
        /\ CASE q = "enable"  -> PsuCall("enable_continuous_mode", <<>>, enable_continuous_mode)
             [] q = "disable" -> PsuCall("disable_continuous_mode", <<>>, disable_continuous_mode)
             [] OTHER -> PsuCall("query_continuous_mode_status", <<>>,
                                 query_continuous_mode_status(PsuSeen(psuOutp, psuInst, d)))

\* fetch() and read(): arg is the continuous mode before the call
PsuFetch ==
    \E d \in PsuFactory :
        /\ PsuInUse
        /\ PsuCall("fetch", <<psuInst.cont>>, fetch(PsuSeen(psuOutp, psuInst, d)))

PsuRead ==
    \E d \in PsuFactory :
        /\ PsuInUse
        /\ PsuCall("read", <<psuInst.cont>>, read(PsuSeen(psuOutp, psuInst, d)))

PsuMeasure ==
    \E d \in PsuFactory, m \in MultimeterMode \cup {"BAD"}, sg \in SignalType \cup {"BAD"} :
        /\ PsuInBlock
        /\ PsuCall("measure", <<m, sg>>,
                   measure(m, "AUTO", "MIN", sg, PsuSeen(psuOutp, psuInst, d)))

\* replies of the instrument to *OPC?: the operation is complete ("1",
\* "+1", with or without the line end the transport leaves), or it is not
OpcReplies ==
    { <<"1">>, <<"+", "1">>, <<"1", "\n">>, <<"+", "1", "\n">>,
      <<"0">>, <<"+", "0">>, <<"0", "\n">> }

PsuIsOperationComplete ==
    \E opc_reply \in OpcReplies :
        /\ PsuInBlock
        /\ PsuCall("is_operation_complete", <<opc_reply>>, is_operation_complete(opc_reply))

\* what the instrument answers to LOG:DATA?: a logged reading in one of the
\* notations of a number, or a text that marks the end of the data
LoggedData ==
    { <<"5">>, <<"-", "5">>, <<"1", ".", "5">>, <<"-", "1", ".", "5">>,
      <<"+", "1", ".", "5">>, <<"1", ".", "5", "\n">>,
      <<"+", "1", ".", "5", "E", "+", "0", "1">>, <<"1", "E", "2">>,
      <<"E", "N", "D">>, <<"E", "N", "D", "\n">>, <<>> }

PsuReadLoggedData ==
    \E logged_data \in LoggedData :
        /\ PsuInBlock
        /\ PsuCall("read_logged_data", <<logged_data>>, read_logged_data(logged_data))

\* the call returns to the block
PsuReturn ==
    /\ underTest = "U3606"
    /\ \/ psuPc \in {"block", "session"}
       \/ psuPc = "test" /\ psuOp.result = "ok"
    /\ psuOp # NoOp
    /\ psuOp' = NoOp
    /\ UNCHANGED <<underTest, ctxVars, memo, psuPc, psuCfg, psuHandle, psuLeaked, psuOutp, psuInst, smuVars>>

PsuNext ==
    \/ PsuReturn
    \/ PsuConstruct
    \/ PsuEnter
    \/ PsuExit
    \/ PsuClose
    \/ PsuEnableOutput
    \/ PsuDisableOutput
    \/ PsuSetVoltage
    \/ PsuSetCurrent
    \/ PsuSetProtection
    \/ PsuConfigure
    \/ PsuConfigureRamp
    \/ PsuConfigureScan
    \/ PsuConfigureSquare
    \/ PsuConfigureMultimeter
    \/ PsuWrite
    \/ PsuQuery
    \/ PsuHandle
    \/ PsuConstantVoltageOutput
    \/ PsuConstantCurrentOutput
    \/ PsuOutputTeardown
    \/ PsuHandleTeardown
    \/ PsuQuerySystemErrors
    \/ PsuQueryOutput
    \/ PsuContinuousMode
    \/ PsuFetch
    \/ PsuRead
    \/ PsuMeasure
    \/ PsuIsOperationComplete
    \/ PsuReadLoggedData

----------------------------------------------------------------------------
(* Enumerations of the U2723 wrapper.                                      *)

SMUChannel == {"CH1", "CH2", "CH3"}
SMUChannelValue == [c \in SMUChannel |->
    CASE c = "CH1" -> 1 [] c = "CH2" -> 2 [] OTHER -> 3]

SMUChannelMode == {"SVMI", "SIMV"}

SMUVoltageRange == {"R2V", "R20V"}
SMUVoltageRangeValue == [r \in SMUVoltageRange |-> r]

SMUCurrentRange == {"R1uA", "R10uA", "R100uA", "R1mA", "R10mA", "R120mA"}
SMUCurrentRangeValue == [r \in SMUCurrentRange |-> r]

SMUMemoryList == {"Mem1", "Mem2"}
SMUMemoryListValue == [m \in SMUMemoryList |-> IF m = "Mem1" THEN 1 ELSE 2]

----------------------------------------------------------------------------
(* KeysightU2723Wrapper: the operations, each the commands it writes.      *)

smu_clear_presets == Wrote(<<Cmd("*rst; status:preset; *cls", <<>>, <<>>, 0)>>)

smu_clear_status == Wrote(<<Cmd("*CLS", <<>>, <<>>, 0)>>)

smu_wait == Wrote(<<Cmd("*WAI", <<>>, <<>>, 0)>>)

\* a setter that checks the upper bound only
set_smu_source_current_no_lower(channel, src_current) ==
    IF src_current > U2723_MAX_CURRENT_LIMIT
    THEN Raise("OutOfRange")
    ELSE Wrote(<<Cmd("SOUR:CURR:LEV:IMM:AMPL", <<>>, <<src_current>>,
                     SMUChannelValue[channel])>>)

set_smu_source_current(channel, src_current) ==
    IF src_current < U2723_MIN_CURRENT_LIMIT \/ src_current > U2723_MAX_CURRENT_LIMIT
    THEN Raise("OutOfRange")
    ELSE Wrote(<<Cmd("SOUR:CURR:LEV:IMM:AMPL", <<>>, <<src_current>>,
                     SMUChannelValue[channel])>>)

set_smu_source_voltage(channel, src_voltage) ==
    IF src_voltage < U2723_MIN_VOLTAGE_LIMIT \/ src_voltage > U2723_MAX_VOLTAGE_LIMIT
    THEN Raise("OutOfRange")
    ELSE Wrote(<<Cmd("SOUR:VOLT:LEV:IMM:AMPL", <<>>, <<src_voltage>>,
                     SMUChannelValue[channel])>>)

set_smu_voltage_limit(channel, voltage_limit) ==
    Wrote(<<Cmd("SOUR:VOLT:LIM", <<>>, <<voltage_limit>>, SMUChannelValue[channel])>>)

set_smu_current_limit(channel, current_limit) ==
    Wrote(<<Cmd("SOUR:CURR:LIM", <<>>, <<current_limit>>, SMUChannelValue[channel])>>)

\* a range setter that always addresses channel 1
set_smu_current_range_channel_one(channel, current_range) ==
    Wrote(<<Cmd("SOUR:CURR:RANG", <<SMUCurrentRangeValue[current_range]>>, <<>>, 1)>>)

set_smu_current_range(channel, current_range) ==
    Wrote(<<Cmd("SOUR:CURR:RANG", <<SMUCurrentRangeValue[current_range]>>, <<>>,
                SMUChannelValue[channel])>>)

set_smu_voltage_range(channel, voltage_range) ==
    Wrote(<<Cmd("SOUR:VOLT:RANG", <<SMUVoltageRangeValue[voltage_range]>>, <<>>,
                SMUChannelValue[channel])>>)

set_smu_trigger_voltage(channel, trigger_voltage) ==
    Wrote(<<Cmd("SOUR:VOLT:TRIG", <<>>, <<trigger_voltage>>, SMUChannelValue[channel])>>)

set_smu_trigger_current(channel, trigger_current) ==
    Wrote(<<Cmd("SOUR:CURR:TRIG", <<>>, <<trigger_current>>, SMUChannelValue[channel])>>)

\* an enable that switches every channel on
enable_smu_channel_all(channel) ==
    Wrote(<<Cmd("OUTP", <<>>, <<1>>, 1), Cmd("OUTP", <<>>, <<1>>, 2),
            Cmd("OUTP", <<>>, <<1>>, 3)>>)

enable_smu_channel(channel) ==
    Wrote(<<Cmd("OUTP", <<>>, <<1>>, SMUChannelValue[channel])>>)

disable_smu_channel(channel) ==
    Wrote(<<Cmd("OUTP", <<>>, <<0>>, SMUChannelValue[channel])>>)

\* write(send_command): wait(), then the command
smu_write(send_command) == Then(smu_wait, Wrote(<<send_command>>))

\* what the U2723 answers to a query: the output-status query reports the
\* output state of the addressed channel, any other query a text of its own
SmuReply(outp, q) ==
    IF q.hdr = "OUTP?" THEN <<IF outp[q.ch] THEN "1" ELSE "0">>
    ELSE <<q.hdr, "reply">>

\* query(query_command): wait(), then the query; returns str(response)
smu_query(query_command, instrument) ==
    Then(smu_wait, Asked(query_command, SmuReply(instrument, query_command)))

\* the typed queries and the memory-list operations send their command
\* straight to the transport, without wait()

smu_is_operation_complete(opc_reply) ==
    Asked(Cmd("*OPC?", <<>>, <<>>, 0),
          <<IF Find(opc_reply, <<"1">>) = 0 THEN "True" ELSE "False">>)

smu_query_system_errors(error_queue) ==
    Asked(Cmd("SYST:ERR?", <<>>, <<>>, 0), error_queue)

query_smu_output_status(channel, instrument) ==
    Asked(Cmd("OUTP?", <<>>, <<>>, SMUChannelValue[channel]),
          SmuReply(instrument, Cmd("OUTP?", <<>>, <<>>, SMUChannelValue[channel])))

\* read_memory_list_results(channel): the reply split at the commas
read_memory_list_results(channel, results) ==
    Asked(Cmd("MEM:LIST:DATA?", <<>>, <<>>, SMUChannelValue[channel]), results)

\* a trigger that stores the program again before it runs it
trigger_memory_list_storing(channel) ==
    Wrote(<<Cmd("MEM:LIST:STOR", <<>>, <<>>, SMUChannelValue[channel]),
            Cmd("MEM:TRIG", <<>>, <<>>, SMUChannelValue[channel])>>)

trigger_memory_list(channel) ==
    Wrote(<<Cmd("MEM:TRIG", <<>>, <<>>, SMUChannelValue[channel])>>)

----------------------------------------------------------------------------
(* fixtures.py: the smu_current_source fixture up to its yield.  An option *)
(* of pytest.ini is None, an empty text or the text of a number.           *)

NoOption == [defined |-> FALSE, text |-> <<>>]
EmptyOption == [defined |-> TRUE, text |-> <<>>]
Option(x) == [defined |-> TRUE, text |-> <<x>>]

\* Python truth value of an option: None and the empty text are false
Given(opt) == opt.text # <<>>

\* a channel set-up that switches the channel off before it enables it
SourceCurrentOn_disable_between(channel, opt) ==
    IF Given(opt)
    THEN Then(set_smu_source_current(channel, opt.text[1]),
         Then(disable_smu_channel(channel), enable_smu_channel(channel)))
    ELSE Wrote(<<>>)

\* if ch_n_curr: set_smu_source_current(CHn, float(ch_n_curr)); enable_smu_channel(CHn)
SourceCurrentOn(channel, opt) ==
    IF Given(opt)
    THEN Then(set_smu_source_current(channel, opt.text[1]), enable_smu_channel(channel))
    ELSE Wrote(<<>>)

\* if ch_n_volt: set_smu_source_voltage(CHn, float(ch_n_volt)); enable_smu_channel(CHn)
SourceVoltageOn(channel, opt) ==
    IF Given(opt)
    THEN Then(set_smu_source_voltage(channel, opt.text[1]), enable_smu_channel(channel))
    ELSE Wrote(<<>>)

smu_voltage_source(ch_1_volt, ch_2_volt, ch_3_volt) ==
    IF ~ch_1_volt.defined /\ ~ch_2_volt.defined /\ ~ch_3_volt.defined
    THEN Raise("NotDefined")
    ELSE Then(SourceVoltageOn("CH1", ch_1_volt),
         Then(SourceVoltageOn("CH2", ch_2_volt),
              SourceVoltageOn("CH3", ch_3_volt)))

\* the code of both source fixtures after their yield
smu_source_teardown ==
    Then(disable_smu_channel("CH1"),
    Then(disable_smu_channel("CH2"),
    Then(disable_smu_channel("CH3"), smu_clear_presets)))

smu_current_source(ch_1_curr, ch_2_curr, ch_3_curr) ==
    IF ~ch_1_curr.defined /\ ~ch_2_curr.defined /\ ~ch_3_curr.defined
    THEN Raise("NotDefined")
    ELSE Then(SourceCurrentOn("CH1", ch_1_curr),
         Then(SourceCurrentOn("CH2", ch_2_curr),
              SourceCurrentOn("CH3", ch_3_curr)))

----------------------------------------------------------------------------
(* Memory-list generators.  An optional argument is <<>> (None) or <<x>>.  *)

\* Python truth value of an Optional[int]
Truthy(opt) == opt # <<>> /\ opt[1] # 0

\* a loop that runs once more than asked
RECURSIVE Repeat_once_more(_, _)
Repeat_once_more(n, c) ==
    IF n < 0 THEN Wrote(<<>>) ELSE Then(smu_write(c), Repeat_once_more(n - 1, c))

\* for _ in range(n): smu.write(c)
RECURSIVE Repeat(_, _)
Repeat(n, c) == IF n <= 0 THEN Wrote(<<>>) ELSE Then(smu_write(c), Repeat(n - 1, c))

\* generators that write to the transport themselves, without write()
WriteAll_direct(cmds) == Wrote(cmds)

RECURSIVE WriteAll(_)
WriteAll(cmds) ==
    IF cmds = <<>> THEN Wrote(<<>>)
    ELSE Then(smu_write(Head(cmds)), WriteAll(Tail(cmds)))

smu_source_voltage_measure_current(channel, V_out, memory_list, measure_count, measure_delay_ms, current_limit, voltage_range, current_range) ==
    LET ch == SMUChannelValue[channel] IN
    Then(WriteAll(<<Cmd("MEM:LIST", <<>>, <<SMUMemoryListValue[memory_list]>>, ch),
                    Cmd("MEM:LIST:CLEAR", <<>>, <<>>, ch),
                    Cmd("MEM:VOLT:RANG", <<SMUVoltageRangeValue[voltage_range]>>, <<>>, ch),
                    Cmd("MEM:CURR:RANG", <<SMUCurrentRangeValue[current_range]>>, <<>>, ch),
                    Cmd("MEM:CURR:LIM", <<>>, <<current_limit>>, ch),
                    Cmd("MEM:SOUR:DEL:AUTO", <<"ON">>, <<>>, ch),
                    Cmd("MEM:VOLT:SOUR", <<>>, <<V_out>>, ch),
                    Cmd("MEM:OUTP", <<"ON">>, <<>>, ch)>>),
    Then(IF Truthy(measure_delay_ms)
         THEN WriteAll(<<Cmd("MEM:SOUR:DEL", <<"SING">>, <<measure_delay_ms[1]>>, ch),
                         Cmd("MEM:VOLT:SOUR", <<>>, <<V_out>>, ch)>>)
         ELSE Wrote(<<>>),
    Then(Repeat(measure_count, Cmd("MEM:CURR:MEAS", <<>>, <<>>, ch)),
         WriteAll(<<Cmd("MEM:OUTP", <<"OFF">>, <<>>, ch),
                    Cmd("MEM:LIST:STOR", <<>>, <<>>, ch)>>))))

\* a program whose measure delay is not followed by the source level
smu_source_current_measure_voltage_no_reassert(channel, I_out, memory_list, measure_count, measure_delay_ms, voltage_limit, voltage_range, current_range) ==
    LET ch == SMUChannelValue[channel] IN
    Then(WriteAll(<<Cmd("MEM:LIST", <<>>, <<SMUMemoryListValue[memory_list]>>, ch),
                    Cmd("MEM:LIST:CLEAR", <<>>, <<>>, ch),
                    Cmd("MEM:VOLT:RANG", <<SMUVoltageRangeValue[voltage_range]>>, <<>>, ch),
                    Cmd("MEM:CURR:RANG", <<SMUCurrentRangeValue[current_range]>>, <<>>, ch),
                    Cmd("MEM:VOLT:LIM", <<>>, <<voltage_limit>>, ch),
                    Cmd("MEM:SOUR:DEL:AUTO", <<"ON">>, <<>>, ch),
                    Cmd("MEM:CURR:SOUR", <<>>, <<I_out>>, ch),
                    Cmd("MEM:OUTP", <<"ON">>, <<>>, ch)>>),
    Then(IF Truthy(measure_delay_ms)
         THEN WriteAll(<<Cmd("MEM:SOUR:DEL", <<"SING">>, <<measure_delay_ms[1]>>, ch)>>)
         ELSE Wrote(<<>>),
    Then(Repeat(measure_count, Cmd("MEM:VOLT:MEAS", <<>>, <<>>, ch)),
         WriteAll(<<Cmd("MEM:OUTP", <<"OFF">>, <<>>, ch),
                    Cmd("MEM:LIST:STOR", <<>>, <<>>, ch)>>))))

smu_source_current_measure_voltage(channel, I_out, memory_list, measure_count, measure_delay_ms, voltage_limit, voltage_range, current_range) ==
    LET ch == SMUChannelValue[channel] IN
    Then(WriteAll(<<Cmd("MEM:LIST", <<>>, <<SMUMemoryListValue[memory_list]>>, ch),
                    Cmd("MEM:LIST:CLEAR", <<>>, <<>>, ch),
                    Cmd("MEM:VOLT:RANG", <<SMUVoltageRangeValue[voltage_range]>>, <<>>, ch),
                    Cmd("MEM:CURR:RANG", <<SMUCurrentRangeValue[current_range]>>, <<>>, ch),
                    Cmd("MEM:VOLT:LIM", <<>>, <<voltage_limit>>, ch),
                    Cmd("MEM:SOUR:DEL:AUTO", <<"ON">>, <<>>, ch),
                    Cmd("MEM:CURR:SOUR", <<>>, <<I_out>>, ch),
                    Cmd("MEM:OUTP", <<"ON">>, <<>>, ch)>>),
    Then(IF Truthy(measure_delay_ms)
         THEN WriteAll(<<Cmd("MEM:SOUR:DEL", <<"SING">>, <<measure_delay_ms[1]>>, ch),
                         Cmd("MEM:CURR:SOUR", <<>>, <<I_out>>, ch)>>)
         ELSE Wrote(<<>>),
    Then(Repeat(measure_count, Cmd("MEM:VOLT:MEAS", <<>>, <<>>, ch)),
         WriteAll(<<Cmd("MEM:OUTP", <<"OFF">>, <<>>, ch),
                    Cmd("MEM:LIST:STOR", <<>>, <<>>, ch)>>))))

\* a pulse program that switches the output on before the pulse
create_smu_pulse_current_output_on(channel, I_peak, pulse_width_ms, memory_list, loops, voltage_limit, current_limit, voltage_range, current_range) ==
    LET ch == SMUChannelValue[channel] IN
    WriteAll(<<Cmd("MEM:LIST", <<>>, <<SMUMemoryListValue[memory_list]>>, ch),
               Cmd("MEM:LIST:CLEAR", <<>>, <<>>, ch),
               Cmd("MEM:VOLT:RANG", <<SMUVoltageRangeValue[voltage_range]>>, <<>>, ch),
               Cmd("MEM:CURR:RANG", <<SMUCurrentRangeValue[current_range]>>, <<>>, ch),
               Cmd("MEM:VOLT:LIM", <<>>, <<voltage_limit>>, ch),
               Cmd("MEM:CURR:LIM", <<>>, <<current_limit>>, ch),
               Cmd("MEM:SOUR:DEL:AUTO", <<"ON">>, <<>>, ch),
               Cmd("MEM:SOUR:DEL", <<"SING">>, <<pulse_width_ms>>, ch),
               Cmd("MEM:CURR:SOUR", <<>>, <<I_peak>>, ch),
               Cmd("MEM:OUTP", <<"ON">>, <<>>, ch),
               Cmd("MEM:CURR:SOUR", <<>>, <<0>>, ch),
               Cmd("MEM:LIST:STOR", <<>>, <<>>, ch)>>)

\* a pulse program stored before its loop configuration
create_smu_pulse_voltage_store_early(channel, V_peak, pulse_width_ms, memory_list, loops, voltage_limit, current_limit, voltage_range, current_range) ==
    LET ch == SMUChannelValue[channel] IN
    WriteAll(<<Cmd("MEM:LIST", <<>>, <<SMUMemoryListValue[memory_list]>>, ch),
               Cmd("MEM:LIST:CLEAR", <<>>, <<>>, ch),
               Cmd("MEM:VOLT:RANG", <<SMUVoltageRangeValue[voltage_range]>>, <<>>, ch),
               Cmd("MEM:CURR:RANG", <<SMUCurrentRangeValue[current_range]>>, <<>>, ch),
               Cmd("MEM:VOLT:LIM", <<>>, <<voltage_limit>>, ch),
               Cmd("MEM:CURR:LIM", <<>>, <<current_limit>>, ch),
               Cmd("MEM:SOUR:DEL:AUTO", <<"ON">>, <<>>, ch),
               Cmd("MEM:SOUR:DEL", <<"SING">>, <<pulse_width_ms>>, ch),
               Cmd("MEM:VOLT:SOUR", <<>>, <<V_peak>>, ch),
               Cmd("MEM:VOLT:SOUR", <<>>, <<0>>, ch),
               Cmd("MEM:LIST:STOR", <<>>, <<>>, ch),
               Cmd("MEM:CONF:POIN", <<>>, <<1, 8, loops>>, ch)>>)

\* a pulse program with one more step and the execution window left as it was
create_smu_pulse_current_longer(channel, I_peak, pulse_width_ms, memory_list, loops, voltage_limit, current_limit, voltage_range, current_range) ==
    LET ch == SMUChannelValue[channel] IN
    WriteAll(<<Cmd("MEM:LIST", <<>>, <<SMUMemoryListValue[memory_list]>>, ch),
               Cmd("MEM:LIST:CLEAR", <<>>, <<>>, ch),
               Cmd("MEM:VOLT:RANG", <<SMUVoltageRangeValue[voltage_range]>>, <<>>, ch),
               Cmd("MEM:CURR:RANG", <<SMUCurrentRangeValue[current_range]>>, <<>>, ch),
               Cmd("MEM:VOLT:LIM", <<>>, <<voltage_limit>>, ch),
               Cmd("MEM:CURR:LIM", <<>>, <<current_limit>>, ch),
               Cmd("MEM:SOUR:DEL:AUTO", <<"ON">>, <<>>, ch),
               Cmd("MEM:SOUR:DEL", <<"SING">>, <<pulse_width_ms>>, ch),
               Cmd("MEM:CURR:SOUR", <<>>, <<I_peak>>, ch),
               Cmd("MEM:SOUR:DEL", <<"SING">>, <<pulse_width_ms>>, ch),
               Cmd("MEM:CURR:SOUR", <<>>, <<0>>, ch),
               Cmd("MEM:CONF:POIN", <<>>, <<1, 8, loops>>, ch),
               Cmd("MEM:LIST:STOR", <<>>, <<>>, ch)>>)

create_smu_pulse_current(channel, I_peak, pulse_width_ms, memory_list, loops, voltage_limit, current_limit, voltage_range, current_range) ==
    LET ch == SMUChannelValue[channel] IN
    WriteAll(<<Cmd("MEM:LIST", <<>>, <<SMUMemoryListValue[memory_list]>>, ch),
               Cmd("MEM:LIST:CLEAR", <<>>, <<>>, ch),
               Cmd("MEM:VOLT:RANG", <<SMUVoltageRangeValue[voltage_range]>>, <<>>, ch),
               Cmd("MEM:CURR:RANG", <<SMUCurrentRangeValue[current_range]>>, <<>>, ch),
               Cmd("MEM:VOLT:LIM", <<>>, <<voltage_limit>>, ch),
               Cmd("MEM:CURR:LIM", <<>>, <<current_limit>>, ch),
               Cmd("MEM:SOUR:DEL:AUTO", <<"ON">>, <<>>, ch),
               Cmd("MEM:SOUR:DEL", <<"SING">>, <<pulse_width_ms>>, ch),
               Cmd("MEM:CURR:SOUR", <<>>, <<I_peak>>, ch),
               Cmd("MEM:CURR:SOUR", <<>>, <<0>>, ch),
               Cmd("MEM:CONF:POIN", <<>>, <<1, 8, loops>>, ch),
               Cmd("MEM:LIST:STOR", <<>>, <<>>, ch)>>)

create_smu_pulse_voltage(channel, V_peak, pulse_width_ms, memory_list, loops, voltage_limit, current_limit, voltage_range, current_range) ==
    LET ch == SMUChannelValue[channel] IN
    WriteAll(<<Cmd("MEM:LIST", <<>>, <<SMUMemoryListValue[memory_list]>>, ch),
               Cmd("MEM:LIST:CLEAR", <<>>, <<>>, ch),
               Cmd("MEM:VOLT:RANG", <<SMUVoltageRangeValue[voltage_range]>>, <<>>, ch),
               Cmd("MEM:CURR:RANG", <<SMUCurrentRangeValue[current_range]>>, <<>>, ch),
               Cmd("MEM:VOLT:LIM", <<>>, <<voltage_limit>>, ch),
               Cmd("MEM:CURR:LIM", <<>>, <<current_limit>>, ch),
               Cmd("MEM:SOUR:DEL:AUTO", <<"ON">>, <<>>, ch),
               Cmd("MEM:SOUR:DEL", <<"SING">>, <<pulse_width_ms>>, ch),
               Cmd("MEM:VOLT:SOUR", <<>>, <<V_peak>>, ch),
               Cmd("MEM:VOLT:SOUR", <<>>, <<0>>, ch),
               Cmd("MEM:CONF:POIN", <<>>, <<1, 8, loops>>, ch),
               Cmd("MEM:LIST:STOR", <<>>, <<>>, ch)>>)

----------------------------------------------------------------------------
(* The U2723 as the wrapper's docstrings describe it: OUTP 1 / OUTP 0      *)
(* enable and disable the output of the addressed channel, the reset       *)
(* command returns every channel to its default state, output off.         *)
(* Memory-list commands (MEM:...) only edit the stored program.            *)

SmuReact(outp, c) ==
    IF c.hdr = "OUTP" THEN [outp EXCEPT ![c.ch] = (c.val = <<1>>)]
    ELSE IF c.hdr \in {"*rst; status:preset; *cls", "*RST"}
         THEN [ch \in DOMAIN outp |-> FALSE]
    ELSE outp

RECURSIVE SmuAfter(_, _)
SmuAfter(outp, cmds) ==
    IF cmds = <<>> THEN outp
    ELSE SmuAfter(SmuReact(outp, Head(cmds)), Tail(cmds))

----------------------------------------------------------------------------
(* KeysightU2723SourceMeasureUnit: the scoped session.                     *)

\* setpoints offered to the U2723: both bounds of each range and their neighbours
SmuValues == {U2723_MIN_VOLTAGE_LIMIT - 1, U2723_MIN_VOLTAGE_LIMIT,
              U2723_MIN_CURRENT_LIMIT - 100, U2723_MIN_CURRENT_LIMIT, 0,
              U2723_MAX_CURRENT_LIMIT, U2723_MAX_CURRENT_LIMIT + 100,
              U2723_MAX_VOLTAGE_LIMIT, U2723_MAX_VOLTAGE_LIMIT + 1}

\* per-channel constructor arguments: output_mode, output_value,
\* voltage_range, current_range ("None" and <<>> when not given)
ChanCfg(m, v, vr, cr) == [mode |-> m, value |-> v, vrange |-> vr, crange |-> cr]

ChanCfgs ==
    { ChanCfg("None", <<>>, "None", "None"),
      ChanCfg("SVMI", <<36000>>, "None", "None"),
      ChanCfg("SIMV", <<100>>, "R20V", "R120mA"),
      ChanCfg("SVMI", <<U2723_MAX_VOLTAGE_LIMIT + 1>>, "R2V", "R1mA"),
      ChanCfg("SIMV", <<U2723_MAX_CURRENT_LIMIT + 100>>, "R2V", "None"),
      ChanCfg("SVMI", <<>>, "None", "R10uA") }

SmuCfgs == [devices : Directories, ch1 : ChanCfgs, ch2 : ChanCfgs, ch3 : ChanCfgs]

\* __init__: the wrapper's constructor raises when nothing was detected
SmuConstruct ==
    /\ underTest = "U2723"
    /\ smuPc = "idle"
    /\ \E cfg \in SmuCfgs :
         /\ smuCfg' = cfg
         /\ smuPc' = IF wrapper_init(cfg.devices).result = "ok" THEN "new" ELSE "failed"
         /\ smuOp' = Op("__init__", <<cfg.devices>>, wrapper_init(cfg.devices), smuOutp)
    /\ smuHandle' = "none"
    /\ smuLeaked' = 0
    /\ UNCHANGED <<underTest, ctxVars, memo, smuOutp, psuVars>>

\* an entry that writes each range that was given, paired or not
SmuEnterChannel_either_range(channel, c) ==
    Then(IF c.vrange # "None" THEN set_smu_voltage_range(channel, c.vrange) ELSE Wrote(<<>>),
    Then(IF c.crange # "None" THEN set_smu_current_range(channel, c.crange) ELSE Wrote(<<>>),
    Then(IF c.mode = "SVMI" /\ c.value # <<>>
         THEN set_smu_source_voltage(channel, c.value[1])
         ELSE Wrote(<<>>),
         IF c.mode = "SIMV" /\ c.value # <<>>
         THEN set_smu_source_current(channel, c.value[1])
         ELSE Wrote(<<>>))))

\* an entry that writes the setpoint of a channel whatever its mode
SmuEnterChannel_both_setpoints(channel, c) ==
    Then(IF c.vrange # "None" /\ c.crange # "None"
         THEN Then(set_smu_voltage_range(channel, c.vrange),
                   set_smu_current_range(channel, c.crange))
         ELSE Wrote(<<>>),
    Then(IF c.value # <<>>
         THEN set_smu_source_voltage(channel, c.value[1])
         ELSE Wrote(<<>>),
         IF c.mode = "SIMV" /\ c.value # <<>>
         THEN set_smu_source_current(channel, c.value[1])
         ELSE Wrote(<<>>)))

\* the three statements of __enter__ for one channel
SmuEnterChannel(channel, c) ==
    Then(IF c.vrange # "None" /\ c.crange # "None"
         THEN Then(set_smu_voltage_range(channel, c.vrange),
                   set_smu_current_range(channel, c.crange))
         ELSE Wrote(<<>>),
    Then(IF c.mode = "SVMI" /\ c.value # <<>>
         THEN set_smu_source_voltage(channel, c.value[1])
         ELSE Wrote(<<>>),
         IF c.mode = "SIMV" /\ c.value # <<>>
         THEN set_smu_source_current(channel, c.value[1])
         ELSE Wrote(<<>>)))

\* the body of __enter__ after open()
SmuEnterConfig(cfg) ==
    Then(SmuEnterChannel("CH1", cfg.ch1),
    Then(SmuEnterChannel("CH2", cfg.ch2),
         SmuEnterChannel("CH3", cfg.ch3)))

\* __enter__: an exception leaves the with statement without calling __exit__
SmuEnter ==
    /\ underTest = "U2723"
    /\ smuPc = "new"
    /\ LET o == open(smuCfg.devices, Serial, U2723Token)
           body == IF o.result = "ok" THEN SmuEnterConfig(smuCfg) ELSE Raise(o.result)
       IN \E f \in Faults(body) :
            LET r == Deliver(body, f)
                all == [result |-> r.result, out |-> o.out \o r.out]
            IN /\ smuOp' = Op("__enter__", <<smuCfg, o.url, o.asked>>, all, smuOutp)
               /\ smuPc' = IF r.result = "ok" THEN "block" ELSE "failed"
               /\ smuHandle' = o.handle
               /\ smuLeaked' = o.leaked
               /\ smuOutp' = SmuAfter(smuOutp, r.out)
    /\ smuCfg' = NoCfg
    /\ UNCHANGED <<underTest, ctxVars, memo, psuVars>>

\* __exit__, called when the block ends, normally or by an exception:
\* clear_presets(), clear_status(), close()
SmuExitBody == Then(Then(smu_clear_presets, smu_clear_status), Wrote(<<CLOSE>>))

\* close() called on the wrapper, before open() or inside the block
SmuClose ==
    /\ underTest = "U2723"
    /\ smuPc = "new" \/ SmuAtCall
    /\ \E f \in Faults(close_session(smuHandle)) :
         LET r == Deliver(close_session(smuHandle), f)
         IN /\ smuOp' = Op("close", <<smuHandle>>, r, smuOutp)
            /\ smuHandle' = IF r.result = "ok" THEN close(smuHandle) ELSE smuHandle
    /\ UNCHANGED <<underTest, ctxVars, memo, smuPc, smuCfg, smuLeaked, smuOutp, psuVars>>

\* a write to a closed transport raises: the exit of a block that closed
\* the session fails at its first write
SmuExit ==
    /\ SmuAtCall
    /\ \E exc \in BOOLEAN, f \in (IF smuHandle = "open" THEN Faults(SmuExitBody) ELSE {1}) :
         LET r == Deliver(SmuExitBody, f)
         IN /\ smuOp' = Op("__exit__", <<exc>>, r, smuOutp)
            /\ smuOutp' = SmuAfter(smuOutp, r.out)
            /\ smuHandle' = IF r.result = "ok" THEN close(smuHandle) ELSE smuHandle
    /\ smuPc' = "done"
    /\ UNCHANGED <<underTest, ctxVars, memo, smuCfg, smuLeaked, psuVars>>

\* an operation of the wrapper, or a generator given the wrapper, called
\* inside the block
SmuCall(n, a, body) ==
    /\ \E f \in Faults(body) :
         LET r == Deliver(body, f)
         IN /\ smuOp' = Op(n, a, r, smuOutp)
            /\ smuOutp' = SmuAfter(smuOutp, r.out)
            /\ memo' = Remember(memo, n, a, r, \E ch \in DOMAIN smuOutp : smuOutp[ch])
    /\ UNCHANGED <<underTest, ctxVars, smuPc, smuCfg, smuHandle, smuLeaked, psuVars>>

SmuEnableChannel ==
    \E c \in SMUChannel :
        /\ SmuInBlock
        /\ SmuCall("enable_smu_channel", <<c>>, enable_smu_channel(c))

\* the call that has just returned is made again, with the same
\* arguments, as the block's next statement
SmuCallsAgain(n, a) ==
    /\ underTest = "U2723" /\ smuPc = "block" /\ smuHandle = "open"
    /\ smuOp.name = n /\ smuOp.arg = a /\ smuOp.result = "ok"

SmuDisableChannel ==
    \E c \in SMUChannel :
        /\ SmuInBlock \/ SmuCallsAgain("disable_smu_channel", <<c>>)
        /\ SmuCall("disable_smu_channel", <<c>>, disable_smu_channel(c))

SmuSetSourceVoltage ==
    \E c \in SMUChannel, v \in SmuValues :
        /\ SmuInBlock
        /\ SmuCall("set_smu_source_voltage", <<c, v>>, set_smu_source_voltage(c, v))

SmuSetSourceCurrent ==
    \E c \in SMUChannel, i \in SmuValues :
        /\ SmuInBlock
        /\ SmuCall("set_smu_source_current", <<c, i>>, set_smu_source_current(c, i))

SmuSetLimit ==
    \E c \in SMUChannel, q \in {"V", "A"}, lim \in {DefaultVoltageLimit} :
        /\ SmuInBlock
        /\ IF q = "V"
           THEN SmuCall("set_smu_voltage_limit", <<c, lim>>, set_smu_voltage_limit(c, lim))
           ELSE SmuCall("set_smu_current_limit", <<c, lim>>, set_smu_current_limit(c, lim))

SmuSetVoltageRange ==
    \E c \in SMUChannel, r \in SMUVoltageRange :
        /\ SmuInBlock
        /\ SmuCall("set_smu_voltage_range", <<c, r>>, set_smu_voltage_range(c, r))

SmuSetCurrentRange ==
    \E c \in SMUChannel, r \in SMUCurrentRange :
        /\ SmuInBlock
        /\ SmuCall("set_smu_current_range", <<c, r>>, set_smu_current_range(c, r))

SmuSetTrigger ==
    \E c \in SMUChannel, q \in {"V", "A"}, x \in SmuValues :
        /\ SmuInBlock
        /\ IF q = "V"
           THEN SmuCall("set_smu_trigger_voltage", <<c, x>>, set_smu_trigger_voltage(c, x))
           ELSE SmuCall("set_smu_trigger_current", <<c, x>>, set_smu_trigger_current(c, x))

\* raw commands and queries the block sends through write() and query()
SmuRawWrites == {Cmd("*RST", <<>>, <<>>, 0), Cmd("MEM:TRIG", <<>>, <<>>, 2)}

SmuRawQueries == {Cmd("OUTP?", <<>>, <<>>, 1), Cmd("OUTP?", <<>>, <<>>, 3), Cmd("SYST:ERR?", <<>>, <<>>, 0)}

SmuWrite ==
    \E send_command \in SmuRawWrites :
        /\ SmuInBlock
        /\ SmuCall("write", <<send_command>>, smu_write(send_command))

SmuQuery ==
    \E query_command \in SmuRawQueries :
        /\ SmuInBlock
        /\ SmuCall("query", <<query_command>>, smu_query(query_command, smuOutp))

\* arguments offered to the memory-list generators
MaxMeasureCount == 3
MaxLoops == 2
GenLevels == {200, U2723_MAX_VOLTAGE_LIMIT + 50000}
GenDelays == {<<>>, <<0>>, <<5>>}
PulseWidths == {5, 20}

SmuSourceVoltageMeasureCurrent ==
    \E c \in SMUChannel, V_out \in GenLevels, m \in SMUMemoryList,
       n \in 0..MaxMeasureCount, d \in GenDelays :
        /\ SmuInBlock
        /\ SmuCall("smu_source_voltage_measure_current", <<c, V_out, m, n, d>>,
                   smu_source_voltage_measure_current(c, V_out, m, n, d,
                       DefaultCurrentLimit, "R20V", "R120mA"))

SmuSourceCurrentMeasureVoltage ==
    \E c \in SMUChannel, I_out \in GenLevels, m \in SMUMemoryList,
       n \in 0..MaxMeasureCount, d \in GenDelays :
        /\ SmuInBlock
        /\ SmuCall("smu_source_current_measure_voltage", <<c, I_out, m, n, d>>,
                   smu_source_current_measure_voltage(c, I_out, m, n, d,
                       DefaultVoltageLimit, "R20V", "R120mA"))

SmuCreatePulseCurrent ==
    \E c \in SMUChannel, I_peak \in GenLevels, m \in SMUMemoryList, loops \in 1..MaxLoops,
       pulse_width_ms \in PulseWidths :
        /\ SmuInBlock
        /\ SmuCall("create_smu_pulse_current", <<c, I_peak, m, loops, pulse_width_ms>>,
                   create_smu_pulse_current(c, I_peak, pulse_width_ms, m, loops,
                       PulseVoltageLimit, DefaultCurrentLimit, "R20V", "R120mA"))

SmuCreatePulseVoltage ==
    \E c \in SMUChannel, V_peak \in GenLevels, m \in SMUMemoryList, loops \in 1..MaxLoops,
       pulse_width_ms \in PulseWidths :
        /\ SmuInBlock
        /\ SmuCall("create_smu_pulse_voltage", <<c, V_peak, m, loops, pulse_width_ms>>,
                   create_smu_pulse_voltage(c, V_peak, pulse_width_ms, m, loops,
                       PulseVoltageLimit, DefaultCurrentLimit, "R20V", "R120mA"))

SmuQuerySystemErrors ==
    \E error_queue \in ErrorQueue :
        /\ SmuInBlock
        /\ SmuCall("query_system_errors", <<>>, smu_query_system_errors(error_queue))

SmuQueryOutputStatus ==
    \E c \in SMUChannel :
        /\ SmuInBlock \/ SmuInTest
        /\ SmuCall("query_smu_output_status", <<c>>, query_smu_output_status(c, smuOutp))

SmuTriggerMemoryList ==
    \E c \in SMUChannel :
        /\ SmuInBlock
        /\ SmuCall("trigger_memory_list", <<c>>, trigger_memory_list(c))

\* the samples a stored program captured
SmuReadMemoryListResults ==
    \E c \in SMUChannel, results \in {<<99>>, <<31, 32>>} :
        /\ SmuInBlock
        /\ SmuCall("read_memory_list_results", <<c>>, read_memory_list_results(c, results))

\* the smu_current_source fixture, given the opened wrapper
SourceOptions == {NoOption, EmptyOption, Option(500), Option(U2723_MAX_CURRENT_LIMIT + 100)}

\* a source fixture run by the test runner on the opened wrapper: up to
\* its yield (a fixture that raises before it never resumes), or from its
\* yield to its end
SmuFixture(n, a, body, yielded) ==
    /\ \E f \in Faults(body) :
         LET r == Deliver(body, f)
         IN /\ smuOp' = Op(n, a, r, smuOutp)
            /\ smuOutp' = SmuAfter(smuOutp, r.out)
            /\ smuPc' = IF r.result = "ok" THEN yielded ELSE "block"
    /\ UNCHANGED <<underTest, ctxVars, memo, smuCfg, smuHandle, smuLeaked, psuVars>>

SmuCurrentSource ==
    \E ch_1_curr \in SourceOptions, ch_2_curr \in SourceOptions, ch_3_curr \in SourceOptions :
        /\ SmuInBlock
        /\ SmuFixture("smu_current_source", <<ch_1_curr, ch_2_curr, ch_3_curr>>,
                      smu_current_source(ch_1_curr, ch_2_curr, ch_3_curr), "test")

VoltageOptions ==
    {NoOption, EmptyOption, Option(50000), Option(U2723_MAX_VOLTAGE_LIMIT + 10000)}

SmuVoltageSource ==
    \E ch_1_volt \in VoltageOptions, ch_2_volt \in VoltageOptions, ch_3_volt \in VoltageOptions :
        /\ SmuInBlock
        /\ SmuFixture("smu_voltage_source", <<ch_1_volt, ch_2_volt, ch_3_volt>>,
                      smu_voltage_source(ch_1_volt, ch_2_volt, ch_3_volt), "test")

\* the test has ended, by its last statement or by an exception: the test
\* runner resumes the source fixture after its yield
SmuSourceTeardown ==
    /\ underTest = "U2723" /\ smuPc = "test" /\ smuHandle = "open"
    /\ smuOp = NoOp \/ smuOp.result # "ok"
    /\ SmuFixture("smu_source_teardown", <<>>, smu_source_teardown, "block")

SmuIsOperationComplete ==
    \E opc_reply \in OpcReplies :
        /\ SmuInBlock
        /\ SmuCall("is_operation_complete", <<opc_reply>>,
                   smu_is_operation_complete(opc_reply))

\* the call returns to the block
SmuReturn ==
    /\ underTest = "U2723"
    /\ \/ smuPc = "block"
       \/ smuPc = "test" /\ smuOp.result = "ok"
    /\ smuOp # NoOp
    /\ smuOp' = NoOp
    /\ UNCHANGED <<underTest, ctxVars, memo, smuPc, smuCfg, smuHandle, smuLeaked, smuOutp, psuVars>>

SmuNext ==
    \/ SmuReturn
    \/ SmuConstruct
    \/ SmuEnter
    \/ SmuExit
    \/ SmuClose
    \/ SmuEnableChannel
    \/ SmuDisableChannel
    \/ SmuSetSourceVoltage
    \/ SmuSetSourceCurrent
    \/ SmuSetLimit
    \/ SmuSetVoltageRange
    \/ SmuSetCurrentRange
    \/ SmuSetTrigger
    \/ SmuSourceVoltageMeasureCurrent
    \/ SmuSourceCurrentMeasureVoltage
    \/ SmuCreatePulseCurrent
    \/ SmuCreatePulseVoltage
    \/ SmuWrite
    \/ SmuQuery
    \/ SmuQuerySystemErrors
    \/ SmuQueryOutputStatus
    \/ SmuTriggerMemoryList
    \/ SmuReadMemoryListResults
    \/ SmuCurrentSource
    \/ SmuVoltageSource
    \/ SmuSourceTeardown
    \/ SmuIsOperationComplete

----------------------------------------------------------------------------
(* Several execution contexts calling write() and query() on one session.  *)
(* A call is the transport operations of write() / query() in order; each  *)
(* transport operation is one step, and the wrapper holds no lock between  *)
(* them.                                                                   *)

Contexts == {1, 2}

\* calls each context makes
MaxCalls == 1

\* todo: the transport operations the call in progress has still to send;
\* sent: how many it has sent; calls: the calls the context has begun
Idle == [todo |-> <<>>, sent |-> 0, calls |-> 0]

\* the context is inside a call, between two of its transport operations
MidCall(c) == c.sent > 0 /\ c.todo # <<>>

\* a session that lets one call at a time use the transport
MaySend_serialized(cx, t) == \A u \in Contexts \ {t} : ~MidCall(cx[u])

\* write() and query() acquire nothing before wait() and release nothing
\* after the command: the transport takes the operation of any context
MaySend(cx, t) == TRUE

\* a context enters write(send_command) or query(query_command)
CtxCall(t) ==
    /\ ctx[t].todo = <<>>
    /\ ctx[t].calls < MaxCalls
    /\ \E body \in IF underTest = "U3606"
                    THEN {write(c).out : c \in PsuRawWrites}
                         \cup {query(q, psuOutp).out : q \in PsuRawQueries}
                    ELSE {smu_write(c).out : c \in SmuRawWrites}
                         \cup {smu_query(q, smuOutp).out : q \in SmuRawQueries} :
         ctx' = [ctx EXCEPT ![t] = [todo |-> body, sent |-> 0, calls |-> @.calls + 1]]
    /\ UNCHANGED <<underTest, psuVars, smuVars, wire, memo>>

\* the next transport operation of the context's call reaches the instrument
CtxSend(t) ==
    /\ ctx[t].todo # <<>>
    /\ MaySend(ctx, t)
    /\ LET c == Head(ctx[t].todo) IN
         /\ wire' = Append(wire, [by |-> t, cmd |-> c])
         /\ ctx' = [ctx EXCEPT ![t].todo = Tail(@), ![t].sent = @ + 1]
         /\ psuOutp' = IF underTest = "U3606" THEN PsuReact(psuOutp, c) ELSE psuOutp
         /\ psuInst' = IF underTest = "U3606" THEN PsuInstReact(psuInst, c) ELSE psuInst
         /\ smuOutp' = IF underTest = "U2723" THEN SmuReact(smuOutp, c) ELSE smuOutp
    /\ UNCHANGED <<underTest, psuPc, psuCfg, psuHandle, psuLeaked, psuOp,
                   smuPc, smuCfg, smuHandle, smuLeaked, smuOp, memo>>

----------------------------------------------------------------------------
(* The test process drives one instrument through one scoped session (a    *)
(* with statement); the instrument is in any output state before it.  The  *)
(* two instruments' sessions share no state.                               *)

Init ==
    /\ underTest \in {"U3606", "U2723"}
    /\ psuPc = "idle"
    /\ psuCfg = NoCfg
    /\ psuHandle = "none"
    /\ psuLeaked = 0
    /\ psuOutp \in IF underTest = "U3606" THEN BOOLEAN ELSE {FALSE}
    /\ psuInst \in IF underTest = "U3606" THEN PsuInsts ELSE {PsuAtReset}
    /\ psuOp = NoOp
    /\ smuPc = "idle"
    /\ smuCfg = NoCfg
    /\ smuHandle = "none"
    /\ smuLeaked = 0
    /\ smuOutp \in IF underTest = "U2723" THEN [1..3 -> BOOLEAN]
                                          ELSE {[c \in 1..3 |-> FALSE]}
    /\ smuOp = NoOp
    /\ ctx = [t \in Contexts |-> Idle]
    /\ wire = <<>>
    /\ memo = NoMemo

Next == PsuNext \/ SmuNext

Spec == Init /\ [][Next]_vars

\* the session is open inside its block and the block's contexts use it
InitShared ==
    /\ underTest \in {"U3606", "U2723"}
    /\ psuPc = IF underTest = "U3606" THEN "block" ELSE "idle"
    /\ psuCfg = NoCfg
    /\ psuHandle = IF underTest = "U3606" THEN "open" ELSE "none"
    /\ psuLeaked = 0
    /\ psuOutp \in IF underTest = "U3606" THEN BOOLEAN ELSE {FALSE}
    /\ psuInst \in IF underTest = "U3606" THEN PsuInsts ELSE {PsuAtReset}
    /\ psuOp = NoOp
    /\ smuPc = IF underTest = "U2723" THEN "block" ELSE "idle"
    /\ smuCfg = NoCfg
    /\ smuHandle = IF underTest = "U2723" THEN "open" ELSE "none"
    /\ smuLeaked = 0
    /\ smuOutp \in IF underTest = "U2723" THEN [1..3 -> BOOLEAN]
                                          ELSE {[c \in 1..3 |-> FALSE]}
    /\ smuOp = NoOp
    /\ ctx = [t \in Contexts |-> Idle]
    /\ wire = <<>>
    /\ memo = NoMemo

NextShared == \E t \in Contexts : CtxCall(t) \/ CtxSend(t)

SpecShared == InitShared /\ [][NextShared]_vars

\* Both sessions are open inside their blocks, on an instrument in any
\* state; the test process makes the calls of one of them, in any order,
\* and one call is probed.
InitHistories ==
    /\ underTest \in {"U3606", "U2723"}
    /\ psuPc = "block"
    /\ psuCfg = NoCfg
    /\ psuHandle = "open"
    /\ psuLeaked = 0
    /\ psuOutp \in IF underTest = "U3606" THEN BOOLEAN ELSE {FALSE}
    /\ psuInst \in IF underTest = "U3606" THEN PsuInsts ELSE {PsuAtReset}
    /\ psuOp = NoOp
    /\ smuPc = "block"
    /\ smuCfg = NoCfg
    /\ smuHandle = "open"
    /\ smuLeaked = 0
    /\ smuOutp \in IF underTest = "U2723" THEN [1..3 -> BOOLEAN]
                                          ELSE {[c \in 1..3 |-> FALSE]}
    /\ smuOp = NoOp
    /\ ctx = [t \in Contexts |-> Idle]
    /\ wire = <<>>
    /\ \E i \in IF underTest = "U3606" THEN PsuProbes ELSE SmuProbes :
         memo = [NoMemo EXCEPT !.probe = i]

NextHistories ==
    \/ PsuReturn
    \/ PsuEnableOutput
    \/ PsuDisableOutput
    \/ PsuSetVoltage
    \/ PsuSetCurrent
    \/ PsuSetProtection
    \/ PsuConfigure
    \/ PsuConfigureRamp
    \/ PsuConfigureScan
    \/ PsuConfigureSquare
    \/ PsuConfigureMultimeter
    \/ PsuMeasure
    \/ PsuWrite
    \/ SmuReturn
    \/ SmuEnableChannel
    \/ SmuDisableChannel
    \/ SmuSetSourceVoltage
    \/ SmuSetSourceCurrent
    \/ SmuSetLimit
    \/ SmuSetVoltageRange
    \/ SmuSetCurrentRange
    \/ SmuSourceVoltageMeasureCurrent
    \/ SmuCreatePulseVoltage
    \/ SmuWrite

SpecHistories == InitHistories /\ [][NextHistories]_vars

----------------------------------------------------------------------------
(* Properties.                                                             *)

IsIdn(c) == c.hdr = "*IDN?"
NotIdn(c) == c.hdr # "*IDN?"
NotWai(c) == c.hdr # "*WAI"

\* the commands a call wrote to the instrument, the identification
\* queries of open() aside
Written(op) == SelectSeq(op.out, NotIdn)

\* some output parameter write of out reached the instrument while the
\* output was active, the output being  before  when out began
HotWrite(before, out) ==
    \E i \in DOMAIN out :
        /\ out[i].hdr \in PsuParamHdrs
        /\ PsuAfter(before, SubSeq(out, 1, i - 1))

PsuConfigCalls ==
    {"configure_dc_supply", "configure_multimeter", "set_dc_supply_output_voltage",
     "set_dc_supply_output_current"}

PsuConfigureFuncs ==
    {"configure_dc_supply", "configure_dc_supply_ramp_func",
     "configure_dc_supply_scan_func", "configure_dc_supply_square_func"}

\* C1 (as claimed): a configuration call rejected for an invalid option or an
\* out-of-range setpoint has written no command, and the instrument's
\* output state is what it was before the call.
C1_RejectedCallWroteNothing ==
    (psuOp.name \in PsuConfigCalls /\ Rejected(psuOp))
        => (Written(psuOp) = <<>> /\ psuOutp = psuOp.before)

\* C2 (as claimed): no source-level command written by any operation carries
\* a voltage outside [0,30] V or a current outside [0,1.05] A on the U3606,
\* or a voltage outside [-20,20] V or a current outside [-0.12,0.12] A on
\* the U2723.
C2_NoSourceLevelOutOfBounds ==
    /\ \A i \in DOMAIN psuOp.out :
         LET c == psuOp.out[i] IN
         /\ c.hdr \in {"SOUR:VOLT:LEV:IMM:AMPL", "VOLT:RAMP", "VOLT:SCAN", "SQU:AMPL"}
              => (0 <= c.val[1] /\ c.val[1] <= 300000)
         /\ c.hdr \in {"SOUR:CURR:LEV:IMM:AMPL", "CURR:RAMP", "CURR:SCAN"}
              => (0 <= c.val[1] /\ c.val[1] <= 10500)
    /\ \A i \in DOMAIN smuOp.out :
         LET c == smuOp.out[i] IN
         /\ c.hdr \in {"SOUR:VOLT:LEV:IMM:AMPL", "SOUR:VOLT:TRIG", "MEM:VOLT:SOUR"}
              => (-200000 <= c.val[1] /\ c.val[1] <= 200000)
         /\ c.hdr \in {"SOUR:CURR:LEV:IMM:AMPL", "SOUR:CURR:TRIG", "MEM:CURR:SOUR"}
              => (-1200 <= c.val[1] /\ c.val[1] <= 1200)

\* what a setter call did, given the inclusive range lo..hi of its argument
\* v and the one command cmd it is to write: in range, the call is not
\* rejected and, unless the transport failed, wrote exactly cmd; out of
\* range, it raised OutOfRange and wrote nothing
SetterObeys(op, v, lo, hi, cmd) ==
    IF lo <= v /\ v <= hi
    THEN /\ op.result \in {"ok", "ProtocolError"}
         /\ op.result = "ok" => op.out = <<cmd>>
         /\ op.result = "ProtocolError" => op.out = <<>>
    ELSE op.result = "OutOfRange" /\ op.out = <<>>

\* C3: set_dc_supply_output_voltage(v) writes the voltage-setpoint command
\* exactly when 0 <= v <= 30 V and otherwise raises OutOfRange without
\* writing (30 accepted, 30.0001 rejected); set_dc_supply_output_current(i)
\* likewise for 0 <= i <= 1.05 A.
C3_PsuSetpointBounds ==
    /\ psuOp.name = "set_dc_supply_output_voltage"
         => SetterObeys(psuOp, psuOp.arg[1], 0, 300000,
                        Cmd("SOUR:VOLT:LEV:IMM:AMPL", <<>>, <<psuOp.arg[1]>>, 0))
    /\ psuOp.name = "set_dc_supply_output_current"
         => SetterObeys(psuOp, psuOp.arg[1], 0, 10500,
                        Cmd("SOUR:CURR:LEV:IMM:AMPL", <<>>, <<psuOp.arg[1]>>, 0))

\* 30 V was accepted and written
C3_Witness ==
    /\ psuOp.name = "set_dc_supply_output_voltage"
    /\ psuOp.arg = <<300000>>
    /\ psuOp.result = "ok"
    /\ Len(psuOp.out) = 1

ChannelIndex(name) == CASE name = "CH1" -> 1 [] name = "CH2" -> 2 [] name = "CH3" -> 3

\* C4: for every channel, set_smu_source_current(ch, i) writes the
\* current-setpoint command for ch exactly when -0.12 <= i <= 0.12 A and
\* otherwise raises OutOfRange without writing (0.13 and -0.13 rejected, both
\* bounds accepted); set_smu_source_voltage(ch, v) likewise for
\* -20 <= v <= 20 V.
C4_SmuSetpointBounds ==
    /\ smuOp.name = "set_smu_source_current"
         => SetterObeys(smuOp, smuOp.arg[2], -1200, 1200,
                        Cmd("SOUR:CURR:LEV:IMM:AMPL", <<>>, <<smuOp.arg[2]>>,
                            ChannelIndex(smuOp.arg[1])))
    /\ smuOp.name = "set_smu_source_voltage"
         => SetterObeys(smuOp, smuOp.arg[2], -200000, 200000,
                        Cmd("SOUR:VOLT:LEV:IMM:AMPL", <<>>, <<smuOp.arg[2]>>,
                            ChannelIndex(smuOp.arg[1])))

\* -0.12 A was accepted and written for channel 3
C4_Witness ==
    /\ smuOp.name = "set_smu_source_current"
    /\ smuOp.arg = <<"CH3", -1200>>
    /\ smuOp.result = "ok"
    /\ Len(smuOp.out) = 1

OutputOff == Cmd("OUTP:STAT", <<"OFF">>, <<>>, 0)
OutputOn  == Cmd("OUTP:STAT", <<"ON">>, <<>>, 0)

\* C5: every successful configure_dc_supply, configure_dc_supply_ramp_func,
\* configure_dc_supply_scan_func or configure_dc_supply_square_func writes the
\* output-disable command first, then only its mode-specific parameter
\* writes (configure_dc_supply: setpoint, protection limit, range, in that
\* order) and no output-enable; the output is off after it whatever it was
\* before, and only enable_dc_output (called directly, or by the fixture
\* psu_constant_voltage_output) turns an output that was off on.
C5_ConfigureDisablesFirst ==
    /\ (psuOp.name \in PsuConfigureFuncs /\ psuOp.result = "ok") =>
         /\ Len(psuOp.out) >= 2
         /\ psuOp.out[1] = OutputOff
         /\ \A i \in 2..Len(psuOp.out) : psuOp.out[i].hdr \in PsuParamHdrs
         /\ ~psuOutp
         /\ psuOp.name = "configure_dc_supply" =>
              /\ Len(psuOp.out) = 4
              /\ psuOp.out[2].hdr \in PsuSetpointHdrs
              /\ psuOp.out[3].hdr \in PsuLimitHdrs
              /\ psuOp.out[4].hdr \in PsuRangeHdrs
    /\ (psuOp.name # "none" /\ psuOutp /\ ~psuOp.before)
         => psuOp.name \in {"enable_dc_output", "psu_constant_voltage_output",
                           "psu_constant_current_output"}

\* configure_dc_supply succeeded on an active output
C5_Witness ==
    /\ psuOp.name = "configure_dc_supply"
    /\ psuOp.result = "ok"
    /\ psuOp.before
    /\ ~psuOutp

\* C6 (as claimed): no output parameter write of any operation reaches the
\* instrument while the output is active.
C6_NoParameterWriteWhileActive == ~HotWrite(psuOp.before, psuOp.out)

\* C6 (amended): no output parameter write of a configure operation
\* (configure_dc_supply, its ramp, scan and square variants, scoped-session
\* entry) reaches the instrument while the output is active, each writing
\* output-disable before its first parameter write; the direct setters
\* write without disabling.
C6_ConfigureNeverWritesWhileActive ==
    psuOp.name \in PsuConfigureFuncs \cup {"__enter__"}
        => ~HotWrite(psuOp.before, psuOp.out)

\* a ramp configuration wrote its parameters on an output that was active
C6_Witness ==
    /\ psuOp.name = "configure_dc_supply_ramp_func"
    /\ psuOp.before
    /\ \E i \in DOMAIN psuOp.out : psuOp.out[i].hdr \in PsuParamHdrs

ClearPresets == Cmd("*rst; status:preset; *cls", <<>>, <<>>, 0)
ClearStatus == Cmd("*CLS", <<>>, <<>>, 0)

\* C7 (as claimed): SMU scoped session exit writes an output-disable command
\* for each of CH1, CH2, CH3 before the clear-presets command.
C7_SmuExitDisablesAllChannels ==
    smuOp.name = "__exit__" =>
        \A ch \in 1..3 :
            \E i \in DOMAIN smuOp.out :
                /\ smuOp.out[i] = Cmd("OUTP", <<>>, <<0>>, ch)
                /\ \A j \in DOMAIN smuOp.out : smuOp.out[j] = ClearPresets => i < j

\* C8 (as claimed): once the scoped session has opened a transport, every
\* path out of the scope ends with no transport open.
C8_ScopeEndsClosed ==
    /\ psuPc \in {"done", "failed"} => (psuHandle # "open" /\ psuLeaked = 0)
    /\ smuPc \in {"done", "failed"} => (smuHandle # "open" /\ smuLeaked = 0)

IsPrefix(s, t) == Len(s) <= Len(t) /\ s = SubSeq(t, 1, Len(s))

ExitSequence == <<ClearPresets, ClearStatus, CLOSE>>

\* C9: when the block of a scoped session (PSU or SMU) exits, normally or by
\* an exception, the exit sequence is clear-presets, then clear-status, then
\* close of the transport, in exactly that order with nothing after the
\* close; a transport failure can only cut the sequence short.
C9_ExitOrder ==
    /\ psuOp.name = "__exit__" =>
         /\ IsPrefix(psuOp.out, ExitSequence)
         /\ psuOp.result = "ok" => (psuOp.out = ExitSequence /\ psuHandle = "closed")
         /\ psuOp.result # "ok" => psuOp.out # ExitSequence
    /\ smuOp.name = "__exit__" =>
         /\ IsPrefix(smuOp.out, ExitSequence)
         /\ smuOp.result = "ok" => (smuOp.out = ExitSequence /\ smuHandle = "closed")
         /\ smuOp.result # "ok" => smuOp.out # ExitSequence

\* the block ended by an exception and the exit sequence ran to the close
C9_Witness ==
    /\ psuOp.name = "__exit__"
    /\ psuOp.arg = <<TRUE>>
    /\ psuOp.result = "ok"
    /\ psuOp.out[3] = CLOSE

\* place of a memory-list command in the protocol order
\* select < clear < setup < auto-delay < steps < output-off < store
Rank(c) ==
    CASE c.hdr = "MEM:LIST" -> 1
      [] c.hdr = "MEM:LIST:CLEAR" -> 2
      [] c.hdr \in {"MEM:VOLT:RANG", "MEM:CURR:RANG", "MEM:VOLT:LIM", "MEM:CURR:LIM"} -> 3
      [] c.hdr = "MEM:SOUR:DEL:AUTO" -> 4
      [] c.hdr = "MEM:OUTP" /\ c.tok = <<"OFF">> -> 6
      [] c.hdr = "MEM:LIST:STOR" -> 7
      [] OTHER -> 5

IsSelect(c) == c.hdr = "MEM:LIST"
IsClear(c) == c.hdr = "MEM:LIST:CLEAR"
IsStore(c) == c.hdr = "MEM:LIST:STOR"
IsOutputOffStep(c) == c.hdr = "MEM:OUTP" /\ c.tok = <<"OFF">>
IsMeasure(c) == c.hdr \in {"MEM:CURR:MEAS", "MEM:VOLT:MEAS"}
IsAutoDelay(c) == c.hdr = "MEM:SOUR:DEL:AUTO"
IsSetup(c) == Rank(c) = 3

Count(s, Test(_)) == Len(SelectSeq(s, Test))

SourceMeasureGenerators ==
    {"smu_source_voltage_measure_current", "smu_source_current_measure_voltage"}

\* C10: for every channel, slot and measure_count N >= 0, the commands a
\* source-and-measure generator emits are ordered select < clear <
\* range/limit setup < auto-delay enable < source/measure steps < output-off
\* < store, with exactly one select, clear, auto-delay enable, output-off and
\* store, and exactly N measurement steps, of the quantity the generator
\* measures.
C10_SourceMeasureOrdering ==
    (smuOp.name \in SourceMeasureGenerators /\ smuOp.result = "ok") =>
        LET cmds == SelectSeq(smuOp.out, NotWai)
            N == smuOp.arg[4]
            meas == IF smuOp.name = "smu_source_voltage_measure_current"
                    THEN "MEM:CURR:MEAS" ELSE "MEM:VOLT:MEAS"
        IN /\ \A i, j \in DOMAIN cmds : i < j => Rank(cmds[i]) <= Rank(cmds[j])
           /\ Count(cmds, IsSelect) = 1
           /\ Count(cmds, IsClear) = 1
           /\ Count(cmds, IsSetup) = 3
           /\ Count(cmds, IsAutoDelay) = 1
           /\ Count(cmds, IsOutputOffStep) = 1
           /\ Count(cmds, IsStore) = 1
           /\ Count(cmds, IsMeasure) = N
           /\ \A i \in DOMAIN cmds : IsMeasure(cmds[i]) => cmds[i].hdr = meas
           /\ \A i \in DOMAIN cmds : cmds[i].ch = ChannelIndex(smuOp.arg[1])

\* a program with measure_count = 3 and a measure delay was generated
C10_Witness ==
    /\ smuOp.name = "smu_source_voltage_measure_current"
    /\ smuOp.result = "ok"
    /\ smuOp.arg[4] = 3
    /\ smuOp.arg[5] = <<5>>
    /\ Count(smuOp.out, IsMeasure) = 3

PulseGenerators == {"create_smu_pulse_current", "create_smu_pulse_voltage"}

IsLoopConfig(c) == c.hdr = "MEM:CONF:POIN"

\* the commands of a generator call, the wait directives of write() aside
Program(op) == SelectSeq(op.out, NotWai)

\* C11 (as claimed): the program of each of the four generators ends with an
\* output-off step immediately followed by the store command, the store
\* being the last command emitted.
C11_EveryProgramEndsOffThenStore ==
    (smuOp.name \in SourceMeasureGenerators \cup PulseGenerators /\ smuOp.result = "ok") =>
        LET cmds == Program(smuOp) IN
        /\ Len(cmds) >= 2
        /\ IsStore(cmds[Len(cmds)])
        /\ smuOp.out[Len(smuOp.out)] = cmds[Len(cmds)]
        /\ IsOutputOffStep(cmds[Len(cmds) - 1])

\* C11 (amended): every program ends with the store command, the last command
\* the generator emits; in a source-and-measure program the store is
\* immediately preceded by the output-off step, in a pulse program by the
\* loop configuration, a pulse program holding no output-off step at all.
C11_ProgramEndsWithStore ==
    (smuOp.name \in SourceMeasureGenerators \cup PulseGenerators /\ smuOp.result = "ok") =>
        LET cmds == Program(smuOp) IN
        /\ Len(cmds) >= 2
        /\ IsStore(cmds[Len(cmds)])
        /\ smuOp.out[Len(smuOp.out)] = cmds[Len(cmds)]
        /\ Count(cmds, IsStore) = 1
        /\ IF smuOp.name \in SourceMeasureGenerators
           THEN IsOutputOffStep(cmds[Len(cmds) - 1])
           ELSE /\ IsLoopConfig(cmds[Len(cmds) - 1])
                /\ Count(cmds, IsOutputOffStep) = 0

\* a pulse-voltage program was stored
C11_Witness ==
    /\ smuOp.name = "create_smu_pulse_voltage"
    /\ smuOp.result = "ok"
    /\ IsStore(smuOp.out[Len(smuOp.out)])
    /\ IsLoopConfig(smuOp.out[Len(smuOp.out) - 2])

\* C12: building a pulse program for any channel, slot, peak and loop count
\* writes no output-enable command and no memory-list output-on step, every
\* command that addresses a channel addresses the one the program is built
\* for, and no channel's output changes.
C12_PulseNeverEnablesOutput ==
    smuOp.name \in PulseGenerators =>
        /\ \A i \in DOMAIN smuOp.out :
             LET c == smuOp.out[i] IN
             /\ c.hdr # "OUTP"
             /\ ~(c.hdr = "MEM:OUTP" /\ c.tok = <<"ON">>)
             /\ IF c.hdr = "*WAI" THEN c.ch = 0 ELSE c.ch = ChannelIndex(smuOp.arg[1])
        /\ smuOutp = smuOp.before
        /\ smuOp.result = "ok" => Len(Program(smuOp)) = 12

\* the pulse-current program of 0.02 A, two loops, slot 1, channel 2 was built
C12_Witness ==
    /\ smuOp.name = "create_smu_pulse_current"
    /\ smuOp.arg = <<"CH2", 200, "Mem1", 2, 5>>
    /\ smuOp.result = "ok"
    /\ Len(smuOp.out) = 24

WAI == Cmd("*WAI", <<>>, <<>>, 0)

\* a generic write or query call: the wait directive, then the command as
\* the next transport operation; the query returned the reply to its command
WaitsThenSends(op, reply) ==
    /\ IsPrefix(op.out, <<WAI, op.arg[1]>>)
    /\ op.result = "ok" =>
         /\ op.out = <<WAI, op.arg[1]>>
         /\ op.reply = IF op.name = "query" THEN reply ELSE <<>>
    /\ op.result # "ok" => (op.out # <<WAI, op.arg[1]>> /\ op.reply = <<>>)

\* C13: write(cmd) and query(cmd) of either session send *WAI first and cmd
\* as the very next transport operation, nothing in between and nothing
\* after; query returns the reply to cmd.
C13_GenericWaitsFirst ==
    /\ psuOp.name \in {"write", "query"}
         => WaitsThenSends(psuOp, PsuReply(psuOp.before, psuOp.arg[1]))
    /\ smuOp.name \in {"write", "query"}
         => WaitsThenSends(smuOp, SmuReply(smuOp.before, smuOp.arg[1]))

\* the output-status query of an active output returned 1
C13_Witness ==
    /\ psuOp.name = "query"
    /\ psuOp.arg[1].hdr = "OUTP:STAT?"
    /\ psuOp.before
    /\ psuOp.result = "ok"
    /\ psuOp.reply = <<"1">>

\* C14 (as claimed): every command or query a session operation sends over
\* the transport is immediately preceded by a wait directive.
C14_EveryCommandPrecededByWait ==
    /\ \A i \in DOMAIN psuOp.out :
         psuOp.out[i].hdr \notin {"*WAI", "<close>"}
             => (i > 1 /\ psuOp.out[i - 1] = WAI)
    /\ \A i \in DOMAIN smuOp.out :
         smuOp.out[i].hdr \notin {"*WAI", "<close>"}
             => (i > 1 /\ smuOp.out[i - 1] = WAI)

\* the address and serial test of open()
Matches(device) == StartsWith(device, USB) /\ Contains(device, Serial)

InDirectory(device, devices) == \E i \in DOMAIN devices : devices[i] = device

\* open() as a scoped entry ran it on the directory op.arg[1].devices,
\* selecting op.arg[2] after querying the endpoints op.arg[3]
OpenedRightly(op, token) ==
    LET devices == op.arg[1].devices
        url == op.arg[2]
        asked == op.arg[3]
        IsTarget(d) == Matches(d) /\ Contains(IdnReply(d, token), token)
    IN /\ op.result # "DeviceNotFound" =>
            (InDirectory(url, devices) /\ IsTarget(url))
       /\ op.result = "DeviceNotFound" <=>
            ~ \E i \in DOMAIN devices : IsTarget(devices[i])
       /\ \A i \in DOMAIN asked : Matches(asked[i]) /\ InDirectory(asked[i], devices)
       /\ Count(op.out, IsIdn) = Len(asked)

\* C15: open() succeeds only by selecting an endpoint whose address starts
\* with USB, contains the configured serial and whose identification reply
\* contains the model token (U3606, U2723); with no such endpoint it fails
\* with DeviceNotFound; the identification query goes only to endpoints
\* that passed the address and serial test.
C15_OpenSelectsTarget ==
    /\ psuOp.name = "__enter__" => OpenedRightly(psuOp, U3606Token)
    /\ smuOp.name = "__enter__" => OpenedRightly(smuOp, U2723Token)

\* the target was selected after an endpoint of another model with a
\* matching address had been queried
C15_Witness ==
    /\ psuOp.name = "__enter__"
    /\ psuOp.arg[1].devices = <<AddrSameSer, AddrTarget>>
    /\ psuOp.arg[2] = AddrTarget
    /\ psuOp.arg[3] = <<AddrSameSer, AddrTarget>>
    /\ psuOp.result = "ok"

\* C16: when discovery returned no endpoints, creating the session fails
\* with NoDevicesDetected, no transport is opened and no command is sent,
\* and the session is never entered.
C16_NoDevicesDetected ==
    /\ psuOp.name = "__init__" =>
         IF psuOp.arg[1] = <<>>
         THEN /\ psuOp.result = "NoDevicesDetected" /\ psuOp.out = <<>>
              /\ psuHandle = "none" /\ psuLeaked = 0 /\ psuPc = "failed"
         ELSE psuOp.result = "ok"
    /\ smuOp.name = "__init__" =>
         IF smuOp.arg[1] = <<>>
         THEN /\ smuOp.result = "NoDevicesDetected" /\ smuOp.out = <<>>
              /\ smuHandle = "none" /\ smuLeaked = 0 /\ smuPc = "failed"
         ELSE smuOp.result = "ok"
    /\ psuOp.name = "__enter__" => psuOp.arg[1].devices # <<>>
    /\ smuOp.name = "__enter__" => smuOp.arg[1].devices # <<>>

\* an SMU session was created on an empty directory
C16_Witness ==
    /\ smuOp.name = "__init__"
    /\ smuOp.arg = << <<>> >>
    /\ smuOp.result = "NoDevicesDetected"
    /\ smuPc = "failed"

\* a close() call on a wrapper whose handle was h: never opened, it does
\* nothing; otherwise it closes the transport, which stays closed however
\* often it is closed
CloseObeys(op, handle) ==
    LET h == op.arg[1] IN
    /\ h = "none" => (op.result = "ok" /\ op.out = <<>> /\ handle = "none")
    /\ h # "none" => IsPrefix(op.out, <<CLOSE>>)
    /\ (h # "none" /\ op.result = "ok") => (op.out = <<CLOSE>> /\ handle = "closed")
    /\ op.result # "ok" => handle = h

IsConf(c) == c.hdr = "CONF"
IsOutputCmd(c) == c.hdr = "OUTP:STAT"

\* PSU scoped entry up to its output state: the identification queries of
\* open() come first; then the measurement configuration, one CONF command
\* that is no output command, exactly when a multimeter mode was given;
\* then the output configuration, begun by output-disable, only when an
\* output mode was given; no output-enable is written.
PsuEntryOrdered(op) ==
    LET cfg == op.arg[1]
        w == Written(op)
        n == Len(w)
        k == Count(w, IsConf)
    IN /\ \A i, j \in DOMAIN op.out : (i < j /\ IsIdn(op.out[j])) => IsIdn(op.out[i])
       /\ \A i \in DOMAIN op.out : op.out[i] # OutputOn
       /\ k <= 1
       /\ cfg.mulitimeter_mode = "None" => k = 0
       /\ (cfg.mulitimeter_mode # "None" /\ n > 0) => IsConf(w[1])
       /\ (cfg.mulitimeter_mode # "None" /\ op.result = "ok") => k = 1
       /\ cfg.dc_output_mode = "None" => n = k
       /\ n > k => w[k + 1] = OutputOff
       /\ (cfg.dc_output_mode # "None" /\ op.result = "ok") =>
            (n = k + 4 /\ \A i \in (k + 2)..n : w[i].hdr \in PsuParamHdrs)

\* C18 (as claimed): PSU scoped entry opens, then writes the measurement
\* configuration if a multimeter mode was given, then the output
\* configuration if an output mode was given; the measurement configuration
\* writes no output command, entry writes no output-enable, and the output
\* is off when the block starts.
C18_EntryLeavesOutputOff ==
    psuOp.name = "__enter__" =>
        /\ PsuEntryOrdered(psuOp)
        /\ psuOp.result = "ok" => ~psuOutp

\* C18 (amended): as claimed up to the output state; the output is off when
\* the block starts if an output mode was given, and otherwise as it was
\* before entry, entry writing no output command then.
C18_EntryOrder ==
    psuOp.name = "__enter__" =>
        /\ PsuEntryOrdered(psuOp)
        /\ (psuOp.result = "ok" /\ psuOp.arg[1].dc_output_mode # "None") => ~psuOutp
        /\ psuOp.arg[1].dc_output_mode = "None" =>
             (psuOutp = psuOp.before /\ Count(psuOp.out, IsOutputCmd) = 0)

\* entry configured the multimeter, then the output of an active supply
C18_Witness ==
    /\ psuOp.name = "__enter__"
    /\ psuOp.result = "ok"
    /\ psuOp.arg[1].mulitimeter_mode = "CURRENT"
    /\ psuOp.arg[1].dc_output_mode = "CONSTANT_VOLTAGE"
    /\ psuOp.before
    /\ ~psuOutp
    /\ Len(Written(psuOp)) = 5

\* the commands of out addressed to channel ch
RECURSIVE ForChannel(_, _)
ForChannel(out, ch) ==
    IF out = <<>> THEN <<>>
    ELSE IF Head(out).ch = ch THEN <<Head(out)>> \o ForChannel(Tail(out), ch)
    ELSE ForChannel(Tail(out), ch)

IsVoltageRange(c) == c.hdr = "SOUR:VOLT:RANG"
IsCurrentRange(c) == c.hdr = "SOUR:CURR:RANG"
IsVoltageSetpoint(c) == c.hdr = "SOUR:VOLT:LEV:IMM:AMPL"
IsCurrentSetpoint(c) == c.hdr = "SOUR:CURR:LEV:IMM:AMPL"
IsSetpoint(c) == IsVoltageSetpoint(c) \/ IsCurrentSetpoint(c)

ChannelCfg(cfg, ch) == CASE ch = 1 -> cfg.ch1 [] ch = 2 -> cfg.ch2 [] ch = 3 -> cfg.ch3

\* C19: SMU scoped entry writes, per channel, the voltage-range and the
\* current-range command both or neither, both exactly when both ranges
\* were supplied, the voltage range first, and before that channel's
\* setpoint command; a failure of the transport or of a later statement can
\* only cut the sequence short.
C19_RangesPairedBeforeSetpoint ==
    smuOp.name = "__enter__" =>
        \A ch \in 1..3 :
            LET c == ChannelCfg(smuOp.arg[1], ch)
                w == ForChannel(smuOp.out, ch)
                paired == c.vrange # "None" /\ c.crange # "None"
            IN /\ ~paired => (Count(w, IsVoltageRange) = 0 /\ Count(w, IsCurrentRange) = 0)
               /\ Count(w, IsCurrentRange) <= Count(w, IsVoltageRange)
               /\ Count(w, IsVoltageRange) <= 1
               /\ (paired /\ Len(w) >= 1) => w[1] = Cmd("SOUR:VOLT:RANG", <<SMUVoltageRangeValue[c.vrange]>>, <<>>, ch)
               /\ (paired /\ Len(w) >= 2) => w[2] = Cmd("SOUR:CURR:RANG", <<SMUCurrentRangeValue[c.crange]>>, <<>>, ch)
               /\ (paired /\ smuOp.result = "ok") => Len(w) >= 2
               /\ \A i, j \in DOMAIN w : (IsSetpoint(w[i]) /\ ~IsSetpoint(w[j])) => j < i

\* entry wrote both ranges of channel 2 and then its current setpoint
C19_Witness ==
    /\ smuOp.name = "__enter__"
    /\ smuOp.result = "ok"
    /\ smuOp.arg[1].ch2 = ChanCfg("SIMV", <<100>>, "R20V", "R120mA")
    /\ Len(ForChannel(smuOp.out, 2)) = 3
    /\ IsCurrentSetpoint(ForChannel(smuOp.out, 2)[3])

\* C20: SMU scoped entry writes, per channel, with mode SVMI and a value
\* exactly one voltage-setpoint command carrying the value and no
\* current-setpoint command, with SIMV and a value exactly one
\* current-setpoint command and no voltage-setpoint command, with no mode or
\* no value no setpoint command; it writes no output-enable command for any
\* channel.  An entry that fails writes no more than that.
C20_SetpointFollowsMode ==
    smuOp.name = "__enter__" =>
        /\ \A i \in DOMAIN smuOp.out : smuOp.out[i].hdr # "OUTP"
        /\ smuOutp = smuOp.before
        /\ \A ch \in 1..3 :
             LET c == ChannelCfg(smuOp.arg[1], ch)
                 w == ForChannel(smuOp.out, ch)
                 nv == IF c.mode = "SVMI" /\ c.value # <<>> THEN 1 ELSE 0
                 ni == IF c.mode = "SIMV" /\ c.value # <<>> THEN 1 ELSE 0
             IN /\ Count(w, IsVoltageSetpoint) <= nv
                /\ Count(w, IsCurrentSetpoint) <= ni
                /\ smuOp.result = "ok" =>
                     (Count(w, IsVoltageSetpoint) = nv /\ Count(w, IsCurrentSetpoint) = ni)
                /\ \A i \in DOMAIN w : IsSetpoint(w[i]) => w[i].val = c.value

\* entry set a voltage on channel 1 and a current on channel 3, channel 2
\* having no mode
C20_Witness ==
    /\ smuOp.name = "__enter__"
    /\ smuOp.result = "ok"
    /\ smuOp.arg[1].ch1.mode = "SVMI" /\ smuOp.arg[1].ch1.value # <<>>
    /\ smuOp.arg[1].ch2.mode = "None"
    /\ smuOp.arg[1].ch3.mode = "SIMV"
    /\ Count(ForChannel(smuOp.out, 1), IsVoltageSetpoint) = 1
    /\ Count(ForChannel(smuOp.out, 3), IsCurrentSetpoint) = 1
    /\ Count(smuOp.out, IsSetpoint) = 2

----------------------------------------------------------------------------
(* Encoding, channel independence and the session scenarios.               *)

\* the command set's token of each range option and index of each slot
VoltageRangeToken == [R2V |-> "R2V", R20V |-> "R20V"]
CurrentRangeToken == [R1uA |-> "R1uA", R10uA |-> "R10uA", R100uA |-> "R100uA",
                      R1mA |-> "R1mA", R10mA |-> "R10mA", R120mA |-> "R120mA"]
MemorySlotIndex == [Mem1 |-> 1, Mem2 |-> 2]

Generators == SourceMeasureGenerators \cup PulseGenerators

\* every command of cmds that has a channel suffix addresses channel k
OnlyChannel(cmds, k) == \A i \in DOMAIN cmds : cmds[i].ch \in {0, k}

\* C21: for every channel and every voltage range, current range and memory
\* slot, the range setter writes one command that carries the option's
\* protocol token and the channel's index, a generator's select command
\* carries the slot's index and the channel's index, and no command of the
\* call addresses another channel.
C21_OptionAndChannelEncoded ==
    /\ smuOp.name = "set_smu_voltage_range" =>
         /\ OnlyChannel(smuOp.out, ChannelIndex(smuOp.arg[1]))
         /\ smuOp.result = "ok" =>
              smuOp.out = <<Cmd("SOUR:VOLT:RANG", <<VoltageRangeToken[smuOp.arg[2]]>>,
                                <<>>, ChannelIndex(smuOp.arg[1]))>>
    /\ smuOp.name = "set_smu_current_range" =>
         /\ OnlyChannel(smuOp.out, ChannelIndex(smuOp.arg[1]))
         /\ smuOp.result = "ok" =>
              smuOp.out = <<Cmd("SOUR:CURR:RANG", <<CurrentRangeToken[smuOp.arg[2]]>>,
                                <<>>, ChannelIndex(smuOp.arg[1]))>>
    /\ smuOp.name \in Generators =>
         /\ OnlyChannel(smuOp.out, ChannelIndex(smuOp.arg[1]))
         /\ smuOp.result = "ok" =>
              /\ Count(smuOp.out, IsSelect) = 1
              /\ Program(smuOp)[1] = Cmd("MEM:LIST", <<>>, <<MemorySlotIndex[smuOp.arg[3]]>>,
                                         ChannelIndex(smuOp.arg[1]))
              /\ \A i \in DOMAIN Program(smuOp) :
                     Program(smuOp)[i].ch = ChannelIndex(smuOp.arg[1])

\* the 120 mA range was set on channel 3
C21_Witness ==
    /\ smuOp.name = "set_smu_current_range"
    /\ smuOp.arg = <<"CH3", "R120mA">>
    /\ smuOp.result = "ok"
    /\ smuOp.out[1].tok = <<"R120mA">>
    /\ smuOp.out[1].ch = 3

SmuChannelSetters ==
    {"set_smu_source_voltage", "set_smu_source_current", "set_smu_voltage_limit",
     "set_smu_current_limit", "set_smu_voltage_range", "set_smu_current_range"}

\* C22: enable_smu_channel(c) and disable_smu_channel(c) write one output
\* command, addressed to c; the output of c becomes on / off and the outputs
\* of the other two channels stay as they were, no command reaching them.
\* A setpoint, range or limit setter for c writes to c only, writes no
\* output command and leaves every channel's output state as it was.
C22_ChannelsIndependent ==
    /\ smuOp.name \in {"enable_smu_channel", "disable_smu_channel"} =>
         LET k == ChannelIndex(smuOp.arg[1]) IN
         /\ \A i \in DOMAIN smuOp.out : smuOp.out[i].hdr = "OUTP" /\ smuOp.out[i].ch = k
         /\ \A j \in (1..3) \ {k} : smuOutp[j] = smuOp.before[j]
         /\ smuOp.result = "ok" =>
              /\ Len(smuOp.out) = 1
              /\ smuOutp[k] = (smuOp.name = "enable_smu_channel")
    /\ smuOp.name \in SmuChannelSetters =>
         /\ \A i \in DOMAIN smuOp.out :
                smuOp.out[i].hdr # "OUTP" /\ smuOp.out[i].ch = ChannelIndex(smuOp.arg[1])
         /\ smuOutp = smuOp.before

\* channel 2 was enabled while channel 1 was on and channel 3 off
C22_Witness ==
    /\ smuOp.name = "enable_smu_channel"
    /\ smuOp.arg = <<"CH2">>
    /\ smuOp.result = "ok"
    /\ smuOp.before = <<TRUE, FALSE, FALSE>>
    /\ smuOutp = <<TRUE, TRUE, FALSE>>

WrapperErrors == {"OutOfRange", "InvalidOption", "NotDefined", "InstrumentError"}

\* a disable that returned wrote exactly one output-disable command, and
\* the output it addressed is off
DisableWritesOnce ==
    /\ (psuOp.name = "disable_dc_output" /\ psuOp.result = "ok") =>
         psuOp.out = <<OutputOff>> /\ ~psuOutp
    /\ (smuOp.name = "disable_smu_channel" /\ smuOp.result = "ok") =>
         /\ smuOp.out = <<Cmd("OUTP", <<>>, <<0>>, ChannelIndex(smuOp.arg[1]))>>
         /\ ~smuOutp[ChannelIndex(smuOp.arg[1])]

\* the step from a disable that returned to the same disable called again
DisabledAgain ==
    /\ ( /\ psuOp.name = "disable_dc_output" /\ psuOp.result = "ok"
         /\ psuOp'.name = "disable_dc_output" ) =>
           /\ psuOp.out = <<OutputOff>>
           /\ psuOp'.result \notin WrapperErrors
           /\ psuOp'.result = "ok" => psuOp'.out = <<OutputOff>>
           /\ ~psuOutp /\ ~psuOutp'
    /\ ( /\ smuOp.name = "disable_smu_channel" /\ smuOp.result = "ok"
         /\ smuOp'.name = "disable_smu_channel" /\ smuOp'.arg = smuOp.arg ) =>
           LET k == ChannelIndex(smuOp.arg[1]) IN
           /\ smuOp.out = <<Cmd("OUTP", <<>>, <<0>>, k)>>
           /\ smuOp'.result \notin WrapperErrors
           /\ smuOp'.result = "ok" => smuOp'.out = <<Cmd("OUTP", <<>>, <<0>>, k)>>
           /\ ~smuOutp[k] /\ smuOutp' = smuOutp

\* C23: when disable_dc_output is called again right after it returned, each
\* of the two calls writes exactly one output-disable command, the second
\* raises no error of the wrapper, and the output is off after the second
\* call as it was after the first; likewise disable_smu_channel called
\* again for the same channel.
C23_DisableTwice == []DisableWritesOnce /\ [][DisabledAgain]_vars

\* disable_dc_output returned on an output that was already off
C23_Witness ==
    /\ psuOp.name = "disable_dc_output"
    /\ psuOp.result = "ok"
    /\ psuOp.out = <<OutputOff>>
    /\ ~psuOp.before
    /\ ~psuOutp

\* the replies of the two typed queries in the present state
StatusReply(d) == Returned(query_dc_supply_output_status(PsuSeen(psuOutp, psuInst, d)))
VoltageReply(d) == Returned(query_dc_supply_output_voltage(PsuSeen(psuOutp, psuInst, d)))

\* C24: configure_dc_supply(ConstantVoltage, v) followed by
\* enable_dc_output(), as the fixture psu_constant_voltage_output makes
\* them, is never rejected for an in-bounds v and leaves the output on at
\* level v: the output-status query then returns 1 and the output-voltage
\* query v.  After a session was opened and reset (the fixture psu_handle)
\* the output-status query returns 0.  Each of the two queries sends its one
\* query command.
C24_ConstantVoltageScenario ==
    /\ psuOp.name = "psu_constant_voltage_output" =>
         /\ psuOp.result = "OutOfRange" =>
              psuOp.arg[1] \notin 0..U3606_MAX_VOLTAGE_LIMIT
         /\ psuOp.result = "ok" =>
              /\ psuOutp
              /\ psuInst.level = psuOp.arg
              /\ \A d \in PsuFactory : StatusReply(d) = <<"1">> /\ VoltageReply(d) = psuOp.arg
    /\ (psuOp.name = "psu_handle" /\ psuOp.result = "ok") =>
         \A d \in PsuFactory : StatusReply(d) = <<"0">>
    /\ (psuOp.name = "query_dc_supply_output_status" /\ psuOp.result = "ok") =>
         /\ psuOp.out = <<Cmd("OUTP?", <<>>, <<>>, 0)>>
         /\ psuOp.reply = <<IF psuOutp THEN "1" ELSE "0">>
    /\ (psuOp.name = "query_dc_supply_output_voltage" /\ psuOp.result = "ok") =>
         /\ psuOp.out = <<Cmd("VOLT?", <<>>, <<>>, 0)>>
         /\ psuInst.level # <<>> => psuOp.reply = psuInst.level

\* the fixture set 30 V on an output that was off
C24_Witness ==
    /\ psuOp.name = "psu_constant_voltage_output"
    /\ psuOp.arg = <<U3606_MAX_VOLTAGE_LIMIT>>
    /\ psuOp.result = "ok"
    /\ ~psuOp.before
    /\ psuOutp
    /\ psuInst.level = <<U3606_MAX_VOLTAGE_LIMIT>>

ChannelName(k) == CASE k = 1 -> "CH1" [] k = 2 -> "CH2" [] k = 3 -> "CH3"

IsOutputDisable(c) == c.hdr = "OUTP" /\ c.val = <<0>>

\* C25: set_smu_source_current(c, i) followed by enable_smu_channel(c), as
\* the fixture smu_current_source makes them for each channel it was given
\* a current for, is rejected only for an out-of-bounds i, writes the
\* setpoint and then the enable for c and no output-disable at all, and
\* leaves channel c on: the output-status query for c then returns 1.  The
\* query sends its one query command, addressed to c.
C25_CurrentSourceScenario ==
    /\ smuOp.name = "smu_current_source" =>
         /\ Count(smuOp.out, IsOutputDisable) = 0
         /\ smuOp.result = "OutOfRange" =>
              \E k \in 1..3 :
                  /\ Given(smuOp.arg[k])
                  /\ smuOp.arg[k].text[1] \notin U2723_MIN_CURRENT_LIMIT..U2723_MAX_CURRENT_LIMIT
         /\ smuOp.result = "ok" =>
              \A k \in 1..3 :
                  Given(smuOp.arg[k]) =>
                      /\ ForChannel(smuOp.out, k) =
                           <<Cmd("SOUR:CURR:LEV:IMM:AMPL", <<>>, smuOp.arg[k].text, k),
                             Cmd("OUTP", <<>>, <<1>>, k)>>
                      /\ smuOutp[k]
                      /\ Returned(query_smu_output_status(ChannelName(k), smuOutp)) = <<"1">>
    /\ (smuOp.name = "query_smu_output_status" /\ smuOp.result = "ok") =>
         /\ smuOp.out = <<Cmd("OUTP?", <<>>, <<>>, ChannelIndex(smuOp.arg[1]))>>
         /\ smuOp.reply = <<IF smuOutp[ChannelIndex(smuOp.arg[1])] THEN "1" ELSE "0">>

\* the fixture sourced a current on channel 2 alone, which was off
C25_Witness ==
    /\ smuOp.name = "smu_current_source"
    /\ smuOp.arg = <<NoOption, Option(500), EmptyOption>>
    /\ smuOp.result = "ok"
    /\ smuOp.before = <<FALSE, FALSE, FALSE>>
    /\ smuOutp = <<FALSE, TRUE, FALSE>>

\* the tokens of a multimeter command for mode m and signal type s: the
\* signal type follows the mode for VOLT and CURR and is absent for RES
CarriesSignalAsItShould(c, m, s) ==
    /\ c.tok[1] = m
    /\ IF m \in {"VOLT", "CURR"}
       THEN Len(c.tok) = 4 /\ c.tok[2] = s
       ELSE Len(c.tok) = 3 /\ \A i \in DOMAIN c.tok : c.tok[i] \notin {"AC", "DC"}

ModeToken == [VOLTAGE |-> "VOLT", CURRENT |-> "CURR", RESISTANCE |-> "RES"]

\* C26: configure_multimeter writes exactly one CONF command and nothing
\* else, so no output command and no output parameter, and the output state
\* is what it was; measure() sends exactly one MEAS query; each carries the
\* signal-type token exactly when the mode is Voltage or Current.
C26_MeasureModeIndependent ==
    /\ psuOp.name \in {"configure_multimeter", "measure"} =>
         /\ psuOutp = psuOp.before
         /\ \A i \in DOMAIN psuOp.out :
                /\ ~IsOutputCmd(psuOp.out[i])
                /\ psuOp.out[i].hdr \notin PsuParamHdrs
         /\ psuOp.result = "ok" =>
              /\ Len(psuOp.out) = 1
              /\ psuOp.out[1].hdr = (IF psuOp.name = "measure" THEN "MEAS?" ELSE "CONF")
              /\ CarriesSignalAsItShould(psuOp.out[1], ModeToken[psuOp.arg[1]], psuOp.arg[2])

\* the multimeter was set to resistance while the output was active
C26_Witness ==
    /\ psuOp.name = "configure_multimeter"
    /\ psuOp.arg[1] = "RESISTANCE"
    /\ psuOp.result = "ok"
    /\ Len(psuOp.out[1].tok) = 3
    /\ psuOp.before
    /\ psuOutp

ContinuousReply(d) == Returned(query_continuous_mode_status(PsuSeen(psuOutp, psuInst, d)))

\* C27: after enable_continuous_mode the status query returns 1; fetch()
\* sends one FETC? and leaves continuous mode as it was, so on after any
\* number of fetches; read() sends exactly one READ? and no INIT:CONT
\* command, and continuous mode is off after it; after
\* disable_continuous_mode the status query returns 0.
C27_ContinuousMode ==
    /\ (psuOp.name = "enable_continuous_mode" /\ psuOp.result = "ok") =>
         /\ psuOp.out = <<Cmd("INIT:CONT", <<"ON">>, <<>>, 0)>>
         /\ \A d \in PsuFactory : ContinuousReply(d) = <<"1">>
    /\ (psuOp.name = "disable_continuous_mode" /\ psuOp.result = "ok") =>
         /\ psuOp.out = <<Cmd("INIT:CONT", <<"OFF">>, <<>>, 0)>>
         /\ \A d \in PsuFactory : ContinuousReply(d) = <<"0">>
    /\ (psuOp.name = "fetch" /\ psuOp.result = "ok") =>
         /\ psuOp.out = <<Cmd("FETC?", <<>>, <<>>, 0)>>
         /\ psuInst.cont = psuOp.arg[1]
         /\ psuOp.arg[1] = "ON" => \A d \in PsuFactory : ContinuousReply(d) = <<"1">>
    /\ (psuOp.name = "read" /\ psuOp.result = "ok") =>
         /\ psuOp.out = <<Cmd("READ?", <<>>, <<>>, 0)>>
         /\ \A d \in PsuFactory : ContinuousReply(d) = <<"0">>
    /\ (psuOp.name = "query_continuous_mode_status" /\ psuOp.result = "ok") =>
         /\ psuOp.out = <<Cmd("INIT:CONT?", <<>>, <<>>, 0)>>
         /\ psuInst.cont = "ON" => psuOp.reply = <<"1">>
         /\ psuInst.cont = "OFF" => psuOp.reply = <<"0">>

\* read() returned in continuous mode, which is off after it
C27_Witness ==
    /\ psuOp.name = "read"
    /\ psuOp.arg = <<"ON">>
    /\ psuOp.result = "ok"
    /\ psuInst.cont = "OFF"

Headers(out) == [i \in DOMAIN out |-> out[i].hdr]

\* C28: a configure_dc_supply that returned wrote, after the output-disable,
\* in ConstantVoltage mode the voltage setpoint, the over-current limit and
\* the voltage range, and in ConstantCurrent mode the current setpoint, the
\* over-voltage limit and the current range, with the values it was given;
\* one that failed wrote a prefix of that.  So no over-voltage limit and no
\* current range is written in ConstantVoltage mode, no over-current limit
\* and no voltage range in ConstantCurrent mode.
C28_LimitOfNonControlledQuantity ==
    (psuOp.name = "configure_dc_supply" /\ psuOp.arg[1] \in DCOutputMode) =>
        LET expected ==
                IF psuOp.arg[1] = "CONSTANT_VOLTAGE"
                THEN <<"OUTP:STAT", "SOUR:VOLT:LEV:IMM:AMPL", "SOUR:CURR:LIM", "SOUR:VOLT:RANG">>
                ELSE <<"OUTP:STAT", "SOUR:CURR:LEV:IMM:AMPL", "SOUR:VOLT:LIM", "SOUR:CURR:RANG">>
        IN /\ IsPrefix(Headers(psuOp.out), expected)
           /\ psuOp.result = "ok" =>
                /\ Headers(psuOp.out) = expected
                /\ psuOp.out[2].val = <<psuOp.arg[2]>>
                /\ psuOp.out[3].val = <<IF psuOp.arg[1] = "CONSTANT_VOLTAGE"
                                        THEN DefaultOverCurrentLimit
                                        ELSE DefaultOverVoltageLimit>>

\* a ConstantCurrent configuration returned
C28_Witness ==
    /\ psuOp.name = "configure_dc_supply"
    /\ psuOp.arg[1] = "CONSTANT_CURRENT"
    /\ psuOp.result = "ok"
    /\ psuOp.out[3].hdr = "SOUR:VOLT:LIM"
    /\ psuOp.out[4].hdr = "SOUR:CURR:RANG"

IsErrorQuery(c) == c.hdr = "SYST:ERR?"

\* the error queue is read by query_system_errors, by the teardown of
\* psu_handle, which calls it, and by the generic query() when the caller
\* passes it the error query
ErrorReaders == {"query_system_errors", "psu_handle_teardown", "query"}

\* C29: query_system_errors sends exactly one error-queue query and returns
\* the reply, whatever it is; it raises only when the transport fails.  No
\* other operation sends the error-queue query, and no operation raises an
\* error of the instrument.
C29_ErrorsReturnedAsData ==
    \A op \in {psuOp, smuOp} :
        /\ op.name = "query_system_errors" =>
             /\ op.result \in {"ok", "ProtocolError"}
             /\ op.result = "ok" =>
                  /\ op.out = <<Cmd("SYST:ERR?", <<>>, <<>>, 0)>>
                  /\ op.reply \in ErrorQueue
        /\ op.name \notin ErrorReaders => Count(op.out, IsErrorQuery) = 0
        /\ op.result # "InstrumentError"

\* an error of the instrument was returned to the caller
C29_Witness ==
    /\ psuOp.name = "query_system_errors"
    /\ psuOp.result = "ok"
    /\ psuOp.reply = <<"-222", "Data out of range">>

IsTrigger(c) == c.hdr = "MEM:TRIG"
IsResultRead(c) == c.hdr = "MEM:LIST:DATA?"
IsDirectOutput(c) == c.hdr = "OUTP"

\* C30: no generator writes a trigger, a result read or a direct output
\* command; trigger_memory_list(ch) writes exactly one MEM:TRIG for ch and
\* nothing else, read_memory_list_results(ch) sends exactly one
\* MEM:LIST:DATA? for ch and nothing else.
C30_BuildAndTriggerDecoupled ==
    /\ smuOp.name \in Generators =>
         /\ Count(smuOp.out, IsTrigger) = 0
         /\ Count(smuOp.out, IsResultRead) = 0
         /\ Count(smuOp.out, IsDirectOutput) = 0
    /\ smuOp.name = "trigger_memory_list" =>
         /\ IsPrefix(smuOp.out, <<Cmd("MEM:TRIG", <<>>, <<>>, ChannelIndex(smuOp.arg[1]))>>)
         /\ smuOp.result = "ok" => Len(smuOp.out) = 1
    /\ smuOp.name = "read_memory_list_results" =>
         /\ IsPrefix(smuOp.out, <<Cmd("MEM:LIST:DATA?", <<>>, <<>>, ChannelIndex(smuOp.arg[1]))>>)
         /\ smuOp.result = "ok" => Len(smuOp.out) = 1

\* the stored program of channel 3 was triggered
C30_Witness ==
    /\ smuOp.name = "trigger_memory_list"
    /\ smuOp.arg = <<"CH3">>
    /\ smuOp.result = "ok"
    /\ smuOp.out = <<Cmd("MEM:TRIG", <<>>, <<>>, 3)>>


----------------------------------------------------------------------------
(* A session shared by several execution contexts.                         *)

\* the positions of context t's transport operations on the wire
SentBy(t) == {i \in 1..Len(wire) : wire[i].by = t}

\* context t's operation at i is the wait directive of a call whose own
\* command is at k, and another context's command went out in between
CutInto(t, i, k) ==
    /\ i \in SentBy(t) /\ k \in SentBy(t) /\ i < k
    /\ wire[i].cmd.hdr = "*WAI" /\ wire[k].cmd.hdr # "*WAI"
    /\ \A j \in (i + 1)..(k - 1) : j \notin SentBy(t)
    /\ \E j \in (i + 1)..(k - 1) : wire[j].cmd.hdr # "*WAI"

\* C31: a session is not safe for concurrent use without external
\* serialization.  write() and query() send the wait directive and the
\* command as two transport operations with nothing held in between: while
\* one context is between its wait directive and its command, the transport
\* operation of any other context that is inside a call can be sent next.
\* Each context by itself still sends its wait directive first, then its
\* command.
C31_WaitAndCommandNotAtomic ==
    /\ \A t \in Contexts : \A u \in Contexts \ {t} :
         (MidCall(ctx[t]) /\ ctx[u].todo # <<>>) => ENABLED CtxSend(u)
    /\ \A t \in Contexts : \A i \in SentBy(t) :
         LET mine == Cardinality({j \in SentBy(t) : j <= i})
         IN (wire[i].cmd.hdr = "*WAI") <=> (mine % 2 = 1)

\* another context's command was sent between a call's wait directive and
\* that call's own command
C31_Witness ==
    \E t \in Contexts : \E i \in 1..Len(wire) : \E k \in 1..Len(wire) : CutInto(t, i, k)

----------------------------------------------------------------------------
(* The steps of a source-and-measure program.                              *)

IsTimedDelay(c) == c.hdr = "MEM:SOUR:DEL"
IsSourceLevel(c) == c.hdr \in {"MEM:VOLT:SOUR", "MEM:CURR:SOUR"}
IsOutputOnStep(c) == c.hdr = "MEM:OUTP" /\ c.tok = <<"ON">>

\* the steps of a program: what follows the auto-delay command
RECURSIVE StepsOf(_)
StepsOf(cmds) ==
    IF cmds = <<>> THEN <<>>
    ELSE IF IsAutoDelay(Head(cmds)) THEN Tail(cmds)
    ELSE StepsOf(Tail(cmds))

\* the program of op sets the source level of the quantity it sources, then
\* writes output-on; with a delay, one timed delay of that length and the
\* same source level again come next, before any measurement; without one,
\* there is no timed delay and no second source level
DelayStepInserted(op, delayed) ==
    LET steps == StepsOf(SelectSeq(op.out, NotWai))
        level == IF op.name = "smu_source_voltage_measure_current"
                 THEN "MEM:VOLT:SOUR" ELSE "MEM:CURR:SOUR"
    IN /\ Len(steps) >= 2
       /\ steps[1].hdr = level /\ steps[1].val = <<op.arg[2]>>
       /\ IsOutputOnStep(steps[2])
       /\ IF delayed
          THEN /\ Len(steps) >= 4
               /\ IsTimedDelay(steps[3]) /\ steps[3].val = op.arg[5]
               /\ steps[3].tok = <<"SING">>
               /\ steps[4] = steps[1]
               /\ Count(steps, IsTimedDelay) = 1
               /\ Count(steps, IsSourceLevel) = 2
               /\ \A i \in 1..4 : ~IsMeasure(steps[i])
          ELSE /\ Count(steps, IsTimedDelay) = 0
               /\ Count(steps, IsSourceLevel) = 1

\* C32 as stated: the delay step and the second source level are there
\* whenever a measure delay is supplied, whatever its value.
C32_DelayStepWhenSupplied ==
    (smuOp.name \in SourceMeasureGenerators /\ smuOp.result = "ok") =>
        DelayStepInserted(smuOp, smuOp.arg[5] # <<>>)

\* C32: source-and-measure generators set the source level once and then
\* write output-on; when a measure delay other than 0 is supplied, exactly
\* one timed-delay step followed by one re-assertion of the same source level
\* is inserted after output-on and before the first measurement step; when no
\* measure delay, or a delay of 0, is supplied, no delay step and no second
\* source-level step are emitted.
C32_DelayStepWhenNonZero ==
    (smuOp.name \in SourceMeasureGenerators /\ smuOp.result = "ok") =>
        DelayStepInserted(smuOp, smuOp.arg[5] # <<>> /\ smuOp.arg[5] # <<0>>)

\* a current-source program with a measure delay of 5 ms and two measurements
C32_Witness ==
    /\ smuOp.name = "smu_source_current_measure_voltage"
    /\ smuOp.result = "ok"
    /\ smuOp.arg[4] = 2
    /\ smuOp.arg[5] = <<5>>
    /\ Count(smuOp.out, IsTimedDelay) = 1
    /\ Count(smuOp.out, IsSourceLevel) = 2

----------------------------------------------------------------------------
(* The steps of a pulse program and its execution window.                  *)

\* the position of the first command of cmds that passes Test (0: none)
FirstAt(cmds, Test(_)) ==
    IF \E i \in DOMAIN cmds : Test(cmds[i])
    THEN CHOOSE i \in DOMAIN cmds : Test(cmds[i]) /\ \A j \in 1..(i - 1) : ~Test(cmds[j])
    ELSE 0

\* C33: a pulse generator emits, after the setup and auto-delay commands,
\* exactly one timed delay of the pulse width, one source-level step to the
\* peak magnitude, one source-level step to zero, then one execution-window
\* command whose start index is 1, whose loop count is the requested loops
\* and whose end index is the number of list entries written between the
\* clear command and the window command; the store follows.
C33_PulseStepsAndWindow ==
    (smuOp.name \in PulseGenerators /\ smuOp.result = "ok") =>
        LET cmds == SelectSeq(smuOp.out, NotWai)
            steps == StepsOf(cmds)
            level == IF smuOp.name = "create_smu_pulse_voltage"
                     THEN "MEM:VOLT:SOUR" ELSE "MEM:CURR:SOUR"
            cleared == FirstAt(cmds, IsClear)
            window == FirstAt(cmds, IsLoopConfig)
        IN /\ Len(steps) = 5
           /\ IsTimedDelay(steps[1]) /\ steps[1].val = <<smuOp.arg[5]>>
           /\ steps[2].hdr = level /\ steps[2].val = <<smuOp.arg[2]>>
           /\ steps[3].hdr = level /\ steps[3].val = <<0>>
           /\ IsLoopConfig(steps[4])
           /\ IsStore(steps[5])
           /\ Count(cmds, IsLoopConfig) = 1
           /\ cleared > 0 /\ window > cleared
           /\ cmds[window].val = <<1, window - cleared - 1, smuOp.arg[4]>>

\* a voltage pulse of 20 ms repeated MaxLoops times was generated
C33_Witness ==
    /\ smuOp.name = "create_smu_pulse_voltage"
    /\ smuOp.result = "ok"
    /\ smuOp.arg[4] = MaxLoops
    /\ smuOp.arg[5] = 20
    /\ Count(smuOp.out, IsLoopConfig) = 1

----------------------------------------------------------------------------
(* How a memory-list generator reaches the transport.                      *)

\* C34: every command a memory-list generator emits goes through the
\* session's generic write, so each is immediately preceded by a wait
\* directive (the transport operations of the call alternate wait
\* directive, command, also when a transport failure cuts the call short),
\* and every one of them addresses the single channel passed to the
\* generator; the slot token appears only in the select command, which is
\* the first command emitted.
C34_GeneratorsUseGenericWrite ==
    smuOp.name \in Generators =>
        LET out == smuOp.out
            cmds == SelectSeq(out, NotWai)
        IN /\ \A i \in DOMAIN out :
                IF i % 2 = 1 THEN out[i].hdr = "*WAI" /\ out[i].ch = 0
                ELSE /\ out[i].hdr # "*WAI"
                     /\ out[i].ch = ChannelIndex(smuOp.arg[1])
           /\ smuOp.result = "ok" => Len(out) % 2 = 0
           /\ \A i \in DOMAIN cmds :
                IsSelect(cmds[i]) <=> i = 1
           /\ cmds # <<>> => cmds[1].val = <<MemorySlotIndex[smuOp.arg[3]]>>

\* a program for slot 2 on channel 3 was generated and stored
C34_Witness ==
    /\ smuOp.name = "smu_source_voltage_measure_current"
    /\ smuOp.result = "ok"
    /\ smuOp.arg[1] = "CH3"
    /\ smuOp.arg[3] = "Mem2"
    /\ smuOp.out[1].hdr = "*WAI"
    /\ smuOp.out[2] = Cmd("MEM:LIST", <<>>, <<2>>, 3)

----------------------------------------------------------------------------
(* A failed open().                                                        *)

\* C35: when open() fails with DeviceNotFound no transport channel is left
\* open: every channel open() opened for an endpoint whose address and
\* serial matched but whose identification reply lacked the model token
\* has been closed, and the session holds no handle, so that a later
\* close() has nothing to close.
C35_FailedOpenLeavesNothingOpen ==
    /\ (psuOp.name \in {"__enter__", "psu_handle"} /\ psuOp.result = "DeviceNotFound") =>
         (psuHandle = "none" /\ psuLeaked = 0)
    /\ (smuOp.name = "__enter__" /\ smuOp.result = "DeviceNotFound") =>
         (smuHandle = "none" /\ smuLeaked = 0)

----------------------------------------------------------------------------
(* The operation-complete query.                                           *)

\* the text of a reply without the line end
Stripped(reply) ==
    IF reply # <<>> /\ reply[Len(reply)] = "\n"
    THEN SubSeq(reply, 1, Len(reply) - 1) ELSE reply

\* the reply to *OPC? indicates completion: it is the number 1, written "1"
\* or, as documented, "+1"
IndicatesCompletion(reply) == Stripped(reply) \in { <<"1">>, <<"+", "1">> }

\* C36: is_operation_complete returns true exactly when the instrument's
\* reply to the operation-complete query indicates completion, the
\* documented completion reply "+1" included, and false otherwise.
C36_TrueExactlyOnCompletion ==
    /\ (psuOp.name = "is_operation_complete" /\ psuOp.result = "ok") =>
         (psuOp.reply = <<"True">> <=> IndicatesCompletion(psuOp.arg[1]))
    /\ (smuOp.name = "is_operation_complete" /\ smuOp.result = "ok") =>
         (smuOp.reply = <<"True">> <=> IndicatesCompletion(smuOp.arg[1]))

----------------------------------------------------------------------------
(* Logged data.                                                            *)

Unsigned(s) == IF s # <<>> /\ s[1] \in {"+", "-"} THEN Tail(s) ELSE s

\* digits, or digits, a point and digits
PlainNumber(s) ==
    \/ AllDigits(s)
    \/ \E k \in 2..(Len(s) - 1) :
          /\ s[k] = "."
          /\ AllDigits(SubSeq(s, 1, k - 1))
          /\ AllDigits(SubSeq(s, k + 1, Len(s)))

\* a numeric reading: signed or unsigned, integer or decimal, plain or with
\* an exponent
IsReading(reply) ==
    LET u == Unsigned(Stripped(reply))
    IN \/ PlainNumber(u)
       \/ \E k \in 2..(Len(u) - 1) :
             /\ u[k] = "E"
             /\ PlainNumber(SubSeq(u, 1, k - 1))
             /\ AllDigits(Unsigned(SubSeq(u, k + 1, Len(u))))

\* C37: read_logged_data classifies each reply by pattern: it returns a
\* numeric value for every reply that is a numeric reading (signed or
\* unsigned, integer or decimal, plain or exponent notation) and returns the
\* reply unchanged as text for every other reply, the end-of-data token
\* among them.
C37_LoggedDataClassified ==
    (psuOp.name = "read_logged_data" /\ psuOp.result = "ok") =>
        LET logged_data == psuOp.arg[1] IN
        IF IsReading(logged_data)
        THEN psuOp.reply = <<"float">> \o logged_data
        ELSE psuOp.reply = <<"str">> \o logged_data

----------------------------------------------------------------------------
(* The same call at two places of a session's history.                     *)

\* the call in progress on the session the test process drives
ProbedOp == IF underTest = "U3606" THEN psuOp ELSE smuOp

\* an output of the driven instrument was on before the call in progress
OutputWasOn ==
    IF underTest = "U3606" THEN psuOp.before
    ELSE \E ch \in DOMAIN smuOp.before : smuOp.before[ch]

\* the probed call has been made before and is the call in progress
SameCallAgain == memo.set /\ IsProbe(memo, ProbedOp.name, ProbedOp.arg)

\* it writes what it wrote the first time (up to a transport failure)
EncodingKeepsNoHistory ==
    SameCallAgain =>
        /\ IsPrefix(ProbedOp.out, memo.out)
        /\ ProbedOp.result = "ok" => ProbedOp.out = memo.out

\* a call on one session writes nothing to the other session, whose call
\* record, instrument and transport stay as they are
SessionsApart ==
    /\ psuOp' # NoOp =>
         (smuOp = NoOp /\ smuOp' = NoOp /\ smuOutp' = smuOutp /\ smuHandle' = smuHandle)
    /\ smuOp' # NoOp =>
         (psuOp = NoOp /\ psuOp' = NoOp /\ psuOutp' = psuOutp /\ psuInst' = psuInst
          /\ psuHandle' = psuHandle)

----------------------------------------------------------------------------
(* The fixtures of the test runner from their set-up to their end.         *)

SourceFixtures == {"smu_voltage_source", "smu_current_source"}

\* the channels an operation wrote an output-enable command for
EnabledBy(op) ==
    {ch \in 1..3 : \E i \in DOMAIN op.out : op.out[i] = Cmd("OUTP", <<>>, <<1>>, ch)}

\* output-disable commands for CH1, CH2 and CH3, then clear-presets
DisablesThenClears(out) ==
    \E k \in DOMAIN out :
        /\ out[k] = ClearPresets
        /\ \A ch \in 1..3 :
             \E i \in 1..(k - 1) : out[i] = Cmd("OUTP", <<>>, <<0>>, ch)

\* C39 (as claimed): on every path on which an SMU source fixture enabled a
\* channel, a set-up that raises on a later channel after an earlier one was
\* enabled included, the fixture writes output-disable commands for CH1,
\* CH2 and CH3 and then clear-presets, and no channel it enabled is enabled
\* when the fixture has ended.
C39_SourceFixtureLeavesChannelsOff ==
    /\ (smuOp.name \in SourceFixtures /\ smuOp.result # "ok" /\ EnabledBy(smuOp) # {}) =>
          /\ DisablesThenClears(smuOp.out)
          /\ \A ch \in EnabledBy(smuOp) : ~smuOutp[ch]
    /\ (smuOp.name = "smu_source_teardown" /\ smuOp.result = "ok") =>
          /\ DisablesThenClears(smuOp.out)
          /\ \A ch \in 1..3 : ~smuOutp[ch]

OutputFixtures == {"psu_constant_voltage_output", "psu_constant_current_output"}

\* the set-up of an output fixture that yielded: the supply was configured
\* with the output switched off, and switched on by the last command only
ConfiguredThenEnabled ==
    (psuOp.name \in OutputFixtures /\ psuOp.result = "ok") =>
        /\ psuOp.out[1] = OutputOff
        /\ psuOp.out[Len(psuOp.out)] = OutputOn
        /\ \A i \in 1..(Len(psuOp.out) - 1) : psuOp.out[i] # OutputOn
        /\ psuPc = "test"

\* the end of an output fixture: the output, on until then, is switched off
DisabledAtTheEnd ==
    (psuOp.name = "psu_output_teardown" /\ psuOp.result = "ok") =>
        /\ psuOp.before
        /\ psuOp.out = <<OutputOff>>
        /\ ~psuOutp
        /\ psuPc = "session"

\* the end of psu_handle: error queue, presets, status, close
SessionTornDown ==
    psuOp.name = "psu_handle_teardown" =>
        /\ IsPrefix(psuOp.out,
                    <<Cmd("SYST:ERR?", <<>>, <<>>, 0), ClearPresets, ClearStatus, CLOSE>>)
        /\ psuOp.result = "ok" => (Len(psuOp.out) = 4 /\ psuHandle = "closed")

\* C40: the PSU output fixtures bracket a test as configure (with the
\* output off), enable, test, disable: the output is on in every state of
\* the test body and off when the fixture's teardown has run; the teardown
\* of psu_handle queries the error queue, clears presets, clears the status
\* and closes, in that order.
C40_OutputFixturesBracketTheTest ==
    /\ ConfiguredThenEnabled
    /\ psuPc = "test" => psuOutp
    /\ DisabledAtTheEnd
    /\ SessionTornDown

\* a test body made calls on the yielded wrapper and the fixture has ended
C40_Witness ==
    /\ psuOp.name = "psu_output_teardown"
    /\ psuOp.result = "ok"
    /\ psuOp.before
    /\ ~psuOutp
    /\ psuInst.cont = "ON"
====
